---- MODULE Spec2Model ----
(***************************************************************************)
(* ESB Fleet Planner: the simulation engine (src/app.js) together with the *)
(* application state it mutates (state.js) and the configuration it reads  *)
(* (config.js).  One electric bus drives a round trip per day for three    *)
(* days.                                                                   *)
(*                                                                         *)
(* Units.  All quantities of the program are floating-point; the model     *)
(* keeps them exact as integers in fixed units:                            *)
(*   distance   1 unit  = MilesPerUnit miles                               *)
(*   time       1 quantum = the simulated time the bus needs for one       *)
(*              distance unit at baseSpeedMph (MilesPerUnit/25 h)          *)
(*   energy     1 unit  = 1/KwhScale kWh                                   *)
(*   money      1 unit  = 1/100000 dollar                                  *)
(*   batteryLevel (a percentage) is kept as percent * batteryCapacity, so  *)
(*              that (batteryKwh / capacity) * 100 is the integer          *)
(*              100 * batteryKwh and a chosen percentage T is T * capacity *)
(*   progress   (a fraction of the route) is kept as the distance units    *)
(*              travelled along the route path; progress p of the source   *)
(*              is bus.progress / route.distance                           *)
(***************************************************************************)
EXTENDS Integers, Sequences, FiniteSets, TLC

\* ------------------------------------------------------------------------
\* Units of the model
MilesPerUnit == 2
KwhScale == 100

\* ------------------------------------------------------------------------
\* Configuration (config.js)
baseSpeedMph == 25
targetDuration == 15000
defaultCapacity == 100
typeCCapacity == 185
minReturnChargePct == 15
safetyBufferPct == 15
maxChargingDuration == 3
numStops == 3
LastDay == 3

\* ESB_EFFICIENCY in hundredths of a kWh per mile
ESB_EFFICIENCY(type, weather) ==
    LET typeA == CASE weather = "fair" -> 130
                   [] weather = "cold" -> 160
                   [] OTHER -> 190
    IN IF type = "typeA" THEN typeA ELSE (typeA * 3) \div 2

\* FUEL_COSTS.electric in money units per energy unit
overnightRate == 180
daytimeRate == 360

\* V2G_CONFIG: dischargeRate in money units per energy unit, minDischargeLevel
\* in percent
dischargeRate == 300
minDischargeLevelPct == 20

\* BATTERY_CONFIG.chargingRateKwhPerHour
chargingRateKwhPerHour == 50

\* SCORING
dayCompleted == 100
noMidDayChargeBonus == 150
midDayChargePenalty == -50
efficientChargeBonus == 75
overchargePerKwhPenalty == -2
perfectRoutePrediction == 500
perfectWeekBonus == 1000
deadheadPenaltyPerMile == 5

\* twice SCORING.difficultyMultiplier[WEATHER_PATTERNS[pattern].difficulty]
DifficultyMultiplierTimes2(pattern) ==
    CASE pattern = "spring" -> 2
      [] pattern = "fall" -> 3
      [] pattern = "winter" -> 4
      [] OTHER -> 6

\* WEATHER_PATTERNS[pattern].schedule[day].weather
ScheduleWeather(pattern, day) ==
    CASE pattern = "spring" -> IF day = 3 THEN "cold" ELSE "fair"
      [] pattern = "fall" -> IF day = 1 THEN "fair" ELSE IF day = 2 THEN "cold" ELSE "extreme"
      [] pattern = "winter" -> IF day = 1 THEN "cold" ELSE "extreme"
      [] OTHER -> "extreme"

\* does the schedule have an entry for this day (schedule.find(d => d.day === day))
HasSchedule(day) == day \in 1..LastDay

\* ------------------------------------------------------------------------
\* Bounds of the model
\* simulated time (quanta) one day may accumulate before ticks stop
MaxElapsedTime == 45

\* the last value of week.currentDay at which the loop still ticks
MaxWeekDay == 4
\* confirmCharging calls the player makes in one day
MaxMidDayCharges == 1
\* the simulated time (quanta) of a day with a whole charging window
MaxChargingTime == 62

\* frame lengths (deltaTime * speedMultiplier) in quanta: a frame shorter than
\* the model's resolution, a frame of one stop spacing, a frame of two
TickUnits == {0, 3, 6}
\* nightly decisions: the charge slider (percent), the route slider (miles
\* one-way, NullNum for a call without it), the V2G toggle
NightlyChoices ==
    { <<100, -1, FALSE>>, <<40, 12, TRUE>>, <<0, -1, FALSE>> }
\* the player's one-way guess on the splash screen (miles)
GuessDistances == {29}

\* ------------------------------------------------------------------------
\* Values
NullNum == -1
DwellPast == -2
NullPos == [on |-> "null", at |-> 0]
RoutePos(n) == [on |-> "route", at |-> n]
Falsy(x) == x <= 0
OrZero(x) == IF x < 0 THEN 0 ELSE x
Min(a, b) == IF a < b THEN a ELSE b
Max(a, b) == IF a > b THEN a ELSE b
Abs(a) == IF a < 0 THEN -a ELSE a
\* rounding that drops the fraction
RoundDown(n, d) == n \div d

\* Math.round of the rational n/d (d > 0): halves round up
Round(n, d) == (2 * n + d) \div (2 * d)

\* ------------------------------------------------------------------------
\* Route generation (routing.js)

\* the distance along a route path of length len at which the path passes the
\* school
SchoolAt(len) == (numStops + 2) * ((len + 1) \div (2 * (numStops + 2)))

\* generateStops: depot, numStops pickups, school, numStops dropoffs at the
\* pickups' coordinates in reverse order, depot; each stop is placed by the
\* distance along the route path (of length len) at which the path passes it
generateStops(len) ==
    LET spacing == (len + 1) \div (2 * (numStops + 2))
        pickup(i) == [type |-> "pickup", at |-> i * spacing, completed |-> FALSE]
        dropoff(i) == [type |-> "dropoff", at |-> 2 * SchoolAt(len) - i * spacing,
                       completed |-> FALSE]
    IN  <<[type |-> "depot", at |-> 0, completed |-> FALSE]>>
        \o [i \in 1..numStops |-> pickup(i)]
        \o <<[type |-> "school", at |-> SchoolAt(len), completed |-> FALSE]>>
        \o [i \in 1..numStops |-> dropoff(numStops + 1 - i)]
        \o <<[type |-> "depot", at |-> len, completed |-> FALSE]>>

\* generateRoutes / regenerateRoute for a one-way target of oneWay miles:
\* route.distance is the length of the routed path, route.pathPoints the
\* number of its points (at least one for each stop)
generateRoute(id, oneWay) ==
    LET len == (2 * oneWay) \div MilesPerUnit
    IN [id |-> id, distance |-> len, pathPoints |-> Len(generateStops(len)),
        stops |-> generateStops(len)]

\* the routing service answers 'Ok' with a geometry that has no coordinates
\* (NullNum), a single point, or two points at the same place:
\* calculatePathLength gives 0 for each, so route.distance is 0
DegeneratePathPoints == {NullNum, 1, 2}
degenerateRoute(id, points) ==
    [id |-> id, distance |-> 0, pathPoints |-> points, stops |-> generateStops(0)]

\* the charging options offered at the school (getAvailableChargingStations):
\* the school's own charger and an off-route public charger; osrm is the
\* routed distance (units) from the school to the station
schoolLevel2 ==
    [id |-> "school-level2", locationType |-> "school", rate |-> daytimeRate,
     kwhPerHour |-> 13, distanceFromSchool |-> 0, deadheadMiles |-> 0, osrm |-> 0]
publicLevel3 ==
    [id |-> "public-charger-1-level3", locationType |-> "public",
     rate |-> (daytimeRate * 16) \div 10, kwhPerHour |-> 50,
     distanceFromSchool |-> 3, deadheadMiles |-> 3 * 2, osrm |-> 2]
getAvailableChargingStations == {schoolLevel2, publicLevel3}

StationPos(station, route) ==
    IF station.locationType = "school"
    THEN RoutePos(SchoolAt(route.distance))
    ELSE [on |-> "deadhead", at |-> station.osrm]

\* ------------------------------------------------------------------------
\* State
VARIABLES
    bus,                \* state.buses[0]
    route,              \* state.routes[0]
    stats,              \* state.stats
    week,               \* state.week
    weather,            \* state.weather
    score,              \* state.score
    decisions,          \* state.nightlyCharging.decisions
    simulation,         \* state.simulation
    pendingCharge,      \* state.pendingCharge
    showNightlyChargingModal, \* state.ui.showNightlyChargingModal
    config,             \* state.config
    simulationInterval, \* the setInterval handle of simulationLoop is set
    startTimer,         \* a setTimeout(startSimulation, 500) is pending
    osrmRequests,       \* confirmCharging calls awaiting the routed path
    regenRequests,      \* continueToNextDay calls awaiting the new route
    completionModal,    \* what the completion modal shows
    checksToday         \* mid-day checks evaluated since the day's reset

vars == <<bus, route, stats, week, weather, score, decisions, simulation,
          pendingCharge, showNightlyChargingModal, config, simulationInterval,
          startTimer, osrmRequests, regenRequests, completionModal,
          checksToday>>

\* the whole state as one record, for the operators that model the handlers
World ==
    [bus |-> bus, route |-> route, stats |-> stats, week |-> week,
     weather |-> weather, score |-> score, decisions |-> decisions,
     simulation |-> simulation, pendingCharge |-> pendingCharge,
     showNightlyChargingModal |-> showNightlyChargingModal, config |-> config,
     simulationInterval |-> simulationInterval,
     startTimer |-> startTimer, osrmRequests |-> osrmRequests,
     regenRequests |-> regenRequests, completionModal |-> completionModal,
     checksToday |-> checksToday]

Becomes(w) ==
    /\ bus' = w.bus /\ route' = w.route /\ stats' = w.stats /\ week' = w.week
    /\ weather' = w.weather /\ score' = w.score /\ decisions' = w.decisions
    /\ simulation' = w.simulation /\ pendingCharge' = w.pendingCharge
    /\ showNightlyChargingModal' = w.showNightlyChargingModal
    /\ config' = w.config /\ simulationInterval' = w.simulationInterval
    /\ startTimer' = w.startTimer
    /\ osrmRequests' = w.osrmRequests /\ regenRequests' = w.regenRequests
    /\ completionModal' = w.completionModal /\ checksToday' = w.checksToday

\* initializeBuses
initializeBuses(r, cfg) ==
    [position |-> RoutePos(0), progress |-> 0, currentStopIndex |-> 0,
     busType |-> cfg.busType,
     batteryCapacity |-> cfg.batteryCapacity,
     batteryLevel |-> 100 * cfg.batteryCapacity,
     batteryKwh |-> cfg.batteryCapacity,
     energyConsumed |-> 0, status |-> "waiting", dwellUntil |-> NullNum,
     needsMidDayCharge |-> FALSE, midDayChargeChecked |-> FALSE,
     arrivedAtSchool |-> FALSE, isCharging |-> FALSE, usedMidDayCharge |-> FALSE,
     chargingTimeHours |-> 0, chargingStation |-> "null", chargingRate |-> NullNum,
     chargingKwhPerHour |-> NullNum, targetChargeKwh |-> NullNum,
     chargerDestination |-> NullPos,
     needsReturnTrip |-> FALSE, returnDestination |-> NullPos,
     returnDistance |-> NullNum, returnProgress |-> NullNum,
     originalPosition |-> NullPos, deadheadProgress |-> NullNum,
     deadheadDistance |-> NullNum, deadheadStartPosition |-> NullPos]

\* resetStats
resetStats ==
    [totalDistance |-> 0, totalEnergyConsumed |-> 0, electricCost |-> 0,
     midDayCharges |-> 0, midDayChargingCost |-> 0, midDayChargingKwh |-> 0,
     nightlyChargingKwh |-> 0, nightlyChargingCost |-> 0, deadheadMiles |-> 0,
     completedRoutes |-> 0, pickupsCompleted |-> 0, v2gEarnings |-> 0,
     v2gKwhDischarged |-> 0, co2Avoided |-> 0]

\* TIME_WINDOWS (hours of the simulated day)
amTripStart == 5
amTripEnd == 9
midDayStart == 9
midDayEnd == 12
pmTripStart == 12
pmTripEnd == 16

\* hundredths of an hour in one hour: simulation.currentTime is kept in
\* hundredths of an hour, fractions dropped
ClockScale == 100

\* resetSimulation
resetSimulation ==
    [running |-> FALSE, paused |-> FALSE, elapsedTime |-> 0,
     currentTime |-> amTripStart * ClockScale]

\* resetWeek
resetWeek ==
    [currentDay |-> 1, dayResults |-> <<>>, totalMidDayCharges |-> 0,
     totalMidDayCost |-> 0, totalOvernightCost |-> 0, totalV2GEarnings |-> 0,
     totalV2GKwh |-> 0]

NoPendingCharge == [set |-> FALSE, energyNeeded |-> 0, currentBattery |-> 0]
NoModal == [shown |-> FALSE, title |-> "", finalScore |-> 0]

\* the state when the start button's handler has run (setupStartButton)
Init ==
    /\ \E guess \in GuessDistances :
          config = [busType |-> "A", batteryCapacity |-> defaultCapacity * KwhScale,
                    guessDistance |-> guess, adjustedRouteDistance |-> NullNum,
                    weatherPattern |-> "fall"]
    /\ route = generateRoute(1, config.guessDistance)
    /\ bus = initializeBuses(route, config)
    /\ stats = resetStats
    /\ week = resetWeek
    /\ weather = ScheduleWeather("fall", 1)
    /\ score = [total |-> 0, dayScores |-> <<>>, bonuses |-> <<>>, penalties |-> <<>>]
    /\ decisions = <<>>
    /\ simulation = resetSimulation
    /\ pendingCharge = NoPendingCharge
    /\ showNightlyChargingModal = FALSE
    /\ simulationInterval = FALSE
    /\ startTimer = FALSE
    /\ osrmRequests = <<>>
    /\ regenRequests = <<>>
    /\ completionModal = NoModal
    /\ checksToday = 0

\* ------------------------------------------------------------------------
\* Simulation engine (src/app.js)

\* stopSimulation
stopSimulation(w) ==
    [w EXCEPT !.simulation.running = FALSE, !.simulation.paused = FALSE,
              !.simulationInterval = FALSE]

\* triggerGameOver: stops the loop and shows the game-over modal, final score '0'
triggerGameOver(w) ==
    [stopSimulation(w) EXCEPT
        !.completionModal = [shown |-> TRUE, title |-> "Bus Stranded!", finalScore |-> 0]]

\* getEfficiency (hundredths of a kWh per mile)
getEfficiency(busType, w) ==
    ESB_EFFICIENCY(IF busType = "A" THEN "typeA" ELSE "typeC", w)

\* distanceToTravel * efficiency, for a distance in units
EnergyForDistance(units, efficiency) ==
    (units * MilesPerUnit * efficiency * KwhScale) \div 100

\* deadhead energy without the deadhead multiplier
EnergyForDeadheadUnweighted(units, efficiency) ==
    (units * MilesPerUnit * efficiency * KwhScale) \div 100

\* distanceToTravel * efficiency * MIDDAY_CHARGING.energyCostDeadhead (1.5)
EnergyForDeadhead(units, efficiency) ==
    (units * MilesPerUnit * efficiency * KwhScale * 3) \div 200

\* the drain without its clamp at 0
DrainBatteryUnclamped(kwh, energyUsed) == kwh - energyUsed

\* Math.max(0, bus.batteryKwh - energyUsed)
DrainBattery(kwh, energyUsed) == Max(0, kwh - energyUsed)

\* (bus.batteryKwh / bus.batteryCapacity) * 100, as percent * capacity
LevelOf(kwh) == 100 * kwh

\* the whole quanta of simulated time in a wall-clock delay of ms:
\* calculateSpeedMultiplier makes the whole route take targetDuration
DwellQuanta(ms, r) == (ms * r.distance) \div targetDuration

\* bus.dwellUntil = Date.now() + ms; bus.status = 'dwelling'; setTimeout(..., ms).
\* bus.dwellUntil keeps the whole quanta that remain until that instant (a
\* fraction of a quantum remains besides), DwellPast once it has passed; the
\* timeout is due at the same instant
StartDwell(w, ms) ==
    [w EXCEPT !.bus.dwellUntil = DwellQuanta(ms, w.route), !.bus.status = "dwelling"]

\* setPendingCharge / clearPendingCharge
setPendingCharge(w, energyToAdd) ==
    [w EXCEPT !.pendingCharge = [set |-> TRUE, energyNeeded |-> energyToAdd,
                                 currentBattery |-> w.bus.batteryLevel]]
clearPendingCharge(w) == [w EXCEPT !.pendingCharge = NoPendingCharge]

\* energy for the PM trip: (route.distance / 2) * efficiency
PmEnergyNeeded(w) ==
    (w.route.distance * MilesPerUnit * getEfficiency(w.bus.busType, w.weather) * KwhScale)
        \div 200

\* batteryPercentAtDepot < BATTERY_CONFIG.minReturnCharge * 100
NeedsCharging(kwh, energyNeeded, capacity) ==
    (kwh - energyNeeded) * 100 < minReturnChargePct * capacity

\* the energy to add without the minimum return charge
EnergyToAddNoReserve(kwh, energyNeeded, capacity) == Max(0, energyNeeded - kwh)

\* Math.max(0, (targetBatteryAtDepot + energyNeeded) - bus.batteryKwh)
EnergyToAdd(kwh, energyNeeded, capacity) ==
    Max(0, ((capacity * minReturnChargePct) \div 100 + energyNeeded) - kwh)

\* checkChargingNeeds: the new state and the value returned
checkChargingNeeds(w) ==
    IF w.bus.isCharging \/ w.bus.midDayChargeChecked \/ w.bus.status = "traveling-to-charger"
    THEN [w |-> w, needs |-> FALSE]
    ELSE IF ~\E i \in 1..Len(w.route.stops) : w.route.stops[i].type = "school"
    THEN [w |-> w, needs |-> FALSE]
    ELSE
      LET w1 == [w EXCEPT !.bus.midDayChargeChecked = TRUE, !.checksToday = @ + 1]
          energyNeeded == PmEnergyNeeded(w1)
          b == w1.bus
      IN IF NeedsCharging(b.batteryKwh, energyNeeded, b.batteryCapacity)
         THEN [w |-> setPendingCharge(
                       stopSimulation([w1 EXCEPT !.bus.needsMidDayCharge = TRUE]),
                       EnergyToAdd(b.batteryKwh, energyNeeded, b.batteryCapacity)),
               needs |-> TRUE]
         ELSE [w |-> w1, needs |-> FALSE]

\* DIESEL_MPG (miles per gallon) by the key of the table
DIESEL_MPG(type) == IF type = "typeC" THEN 6 ELSE 9

\* CO2_CONFIG: poundsPerGallon (19.4) in tenths of a pound, typeCMultiplier
\* (1.5) in halves
poundsPerGallonTimes10 == 194
typeCMultiplierTimes2 == 3

\* thousandths of a pound in a tenth of a pound: stats.co2Avoided is kept
\* in thousandths of a pound, fractions dropped
Co2Scale == 100

\* avgStopDistance: miles per stop segment assumed by processStopArrival
avgStopDistance == 2

\* calculateCO2Avoided(distanceMiles, busType)
calculateCO2Avoided(distanceMiles, busType) ==
    LET mpg == IF busType = "typeC" THEN DIESEL_MPG("typeC") ELSE DIESEL_MPG("typeA")
        co2Avoided == (distanceMiles * poundsPerGallonTimes10 * Co2Scale) \div mpg
    IN IF busType = "typeC" THEN (co2Avoided * typeCMultiplierTimes2) \div 2
       ELSE co2Avoided

\* processStopArrival
processStopArrival(w, stop) ==
    IF stop.type = "school" /\ ~w.bus.midDayChargeChecked
    THEN LET res == checkChargingNeeds(
                      [w EXCEPT !.bus.arrivedAtSchool = TRUE, !.bus.status = "at-school"])
         IN IF ~res.needs THEN StartDwell(res.w, 2000) ELSE res.w
    ELSE IF stop.type \in {"pickup", "dropoff"}
    THEN StartDwell([w EXCEPT !.stats.co2Avoided =
                                  @ + calculateCO2Avoided(avgStopDistance, w.bus.busType),
                              !.stats.pickupsCompleted = @ + 1], 500)
    ELSE w

\* haversineDistance(bus.position, stop.coords) < max(arrivalThreshold, 0.15),
\* for a bus on the route path (hundredths of a mile)
Arrived(position, stop) ==
    Abs(position.at - stop.at) * MilesPerUnit * 100 < Max(10, 15)

\* checkStopArrivals: the while loop, at most 3 arrivals per update
RECURSIVE StopLoop(_, _)
StopLoop(w, stopsProcessed) ==
    LET idx == w.bus.currentStopIndex IN
    IF ~(stopsProcessed < 3 /\ idx < Len(w.route.stops)) THEN w
    ELSE LET currentStop == w.route.stops[idx + 1] IN
         IF currentStop.completed
         THEN StopLoop([w EXCEPT !.bus.currentStopIndex = @ + 1], stopsProcessed)
         ELSE IF Arrived(w.bus.position, currentStop)
         THEN LET w1 == processStopArrival(
                           [w EXCEPT !.route.stops[idx + 1].completed = TRUE], currentStop)
              IN StopLoop([w1 EXCEPT !.bus.currentStopIndex = @ + 1], stopsProcessed + 1)
         ELSE w

checkStopArrivals(w) ==
    IF w.bus.currentStopIndex >= Len(w.route.stops) THEN w ELSE StopLoop(w, 0)

\* completeRoute
completeRoute(w) ==
    [w EXCEPT !.bus.status = "completed", !.bus.progress = w.route.distance,
              !.stats.completedRoutes = @ + 1,
              !.route.stops = [i \in 1..Len(w.route.stops) |->
                                 [w.route.stops[i] EXCEPT !.completed = TRUE]]]

\* a fallback window from 0.40 to 0.60
InWideWindow(progress, distance) ==
    100 * progress >= 40 * distance /\ 100 * progress <= 60 * distance

\* bus.progress >= 0.48 && bus.progress <= 0.52
InFallbackWindow(progress, distance) ==
    100 * progress >= 48 * distance /\ 100 * progress <= 52 * distance

\* the bus runs out of battery while not charging
Stranded(w) ==
    triggerGameOver([w EXCEPT !.bus.batteryKwh = 0, !.bus.batteryLevel = 0,
                              !.bus.status = "stranded"])

\* the progress of a frame without its clamp at the end of the route
AdvanceProgressUnclamped(progress, d, distance) == progress + d

\* Math.min(1, bus.progress + progressIncrement), in units of the route
AdvanceProgress(progress, d, distance) == Min(distance, progress + d)

\* a moveBus that looks at the stops and the school before the battery
moveBusOnStopsFirst(w, d) ==
    IF w.route.distance = 0 THEN w
    ELSE
      LET progress == AdvanceProgress(w.bus.progress, d, w.route.distance)
          energyUsed == EnergyForDistance(d, getEfficiency(w.bus.busType, w.weather))
          kwh == DrainBattery(w.bus.batteryKwh, energyUsed)
          w1 == [w EXCEPT !.bus.progress = progress,
                          !.bus.position = RoutePos(progress),
                          !.bus.energyConsumed = @ + energyUsed,
                          !.bus.batteryKwh = kwh,
                          !.bus.batteryLevel = LevelOf(kwh),
                          !.stats.totalDistance = @ + d,
                          !.stats.totalEnergyConsumed = @ + energyUsed]
          w2 == checkStopArrivals(w1)
      IN IF /\ InFallbackWindow(w2.bus.progress, w2.route.distance)
            /\ ~w2.bus.midDayChargeChecked /\ ~w2.bus.arrivedAtSchool
         THEN LET res == checkChargingNeeds(
                           [w2 EXCEPT !.bus.arrivedAtSchool = TRUE,
                                      !.bus.status = "at-school"])
              IN IF ~res.needs THEN StartDwell(res.w, 1000) ELSE res.w
         ELSE IF w2.bus.batteryKwh <= 0 /\ ~w2.bus.isCharging THEN Stranded(w2)
         ELSE IF 100 * w2.bus.progress >= 99 * w2.route.distance
         THEN completeRoute(w2)
         ELSE w2

\* the body of moveBus after its first check of the battery
moveBusOn(w, d) ==
    IF w.route.distance = 0 THEN w
    ELSE
      LET progress == AdvanceProgress(w.bus.progress, d, w.route.distance)
          energyUsed == EnergyForDistance(d, getEfficiency(w.bus.busType, w.weather))
          kwh == DrainBattery(w.bus.batteryKwh, energyUsed)
          w1 == [w EXCEPT !.bus.progress = progress,
                          !.bus.position = RoutePos(progress),
                          !.bus.energyConsumed = @ + energyUsed,
                          !.bus.batteryKwh = kwh,
                          !.bus.batteryLevel = LevelOf(kwh),
                          !.stats.totalDistance = @ + d,
                          !.stats.totalEnergyConsumed = @ + energyUsed]
      IN IF w1.bus.batteryKwh <= 0 /\ ~w1.bus.isCharging THEN Stranded(w1)
         ELSE
           LET w2 == checkStopArrivals(w1) IN
           IF /\ InFallbackWindow(w2.bus.progress, w2.route.distance)
              /\ ~w2.bus.midDayChargeChecked /\ ~w2.bus.arrivedAtSchool
           THEN LET res == checkChargingNeeds(
                             [w2 EXCEPT !.bus.arrivedAtSchool = TRUE,
                                        !.bus.status = "at-school"])
                IN IF ~res.needs THEN StartDwell(res.w, 1000) ELSE res.w
           ELSE IF 100 * w2.bus.progress >= 99 * w2.route.distance
           THEN completeRoute(w2)
           ELSE w2

\* moveBus without its first check of the battery
moveBusUnchecked(w, d) == moveBusOn(w, d)

\* a moveBus that does not look at the path before the battery
moveBusAnyPath(w, d) ==
    IF w.bus.batteryKwh <= 0 /\ ~w.bus.isCharging THEN Stranded(w)
    ELSE moveBusOn(w, d)

\* moveBus
moveBus(w, d) ==
    IF w.route.pathPoints < 2 THEN w
    ELSE IF w.bus.batteryKwh <= 0 /\ ~w.bus.isCharging THEN Stranded(w)
    ELSE moveBusOn(w, d)

\* a handleDeadheadTravel whose arrival sets up no return leg
handleDeadheadTravelNoReturn(w, d) ==
    IF w.bus.chargerDestination = NullPos \/ Falsy(w.bus.deadheadDistance)
    THEN [w EXCEPT !.bus.isCharging = TRUE, !.bus.status = "charging"]
    ELSE
      LET deadheadProgress == OrZero(w.bus.deadheadProgress) + d
          efficiency == getEfficiency(w.bus.busType, w.weather)
          energyUsed == EnergyForDeadhead(d, efficiency)
          kwh == DrainBattery(w.bus.batteryKwh, energyUsed)
          w1 == [w EXCEPT !.bus.deadheadProgress = deadheadProgress,
                          !.bus.batteryKwh = kwh,
                          !.bus.batteryLevel = LevelOf(kwh),
                          !.bus.energyConsumed = @ + energyUsed,
                          !.stats.totalDistance = @ + d,
                          !.stats.totalEnergyConsumed = @ + energyUsed]
      IN IF kwh <= 0 THEN triggerGameOver([w1 EXCEPT !.bus.status = "stranded"])
         ELSE IF deadheadProgress >= w1.bus.deadheadDistance
         THEN [w1 EXCEPT
                 !.bus.position = w1.bus.chargerDestination,
                 !.bus.isCharging = TRUE, !.bus.status = "charging",
                 !.bus.targetChargeKwh =
                     Min((w1.bus.batteryCapacity * 9) \div 10,
                         @ + EnergyForDeadhead(w1.bus.deadheadDistance, efficiency))]
         ELSE [w1 EXCEPT !.bus.position = [on |-> "deadhead", at |-> deadheadProgress]]

\* handleDeadheadTravel; the position on the deadhead path is the distance from
\* its start
handleDeadheadTravel(w, d) ==
    IF w.bus.chargerDestination = NullPos \/ Falsy(w.bus.deadheadDistance)
    THEN [w EXCEPT !.bus.isCharging = TRUE, !.bus.status = "charging"]
    ELSE
      LET deadheadProgress == OrZero(w.bus.deadheadProgress) + d
          efficiency == getEfficiency(w.bus.busType, w.weather)
          energyUsed == EnergyForDeadhead(d, efficiency)
          kwh == DrainBattery(w.bus.batteryKwh, energyUsed)
          w1 == [w EXCEPT !.bus.deadheadProgress = deadheadProgress,
                          !.bus.batteryKwh = kwh,
                          !.bus.batteryLevel = LevelOf(kwh),
                          !.bus.energyConsumed = @ + energyUsed,
                          !.stats.totalDistance = @ + d,
                          !.stats.totalEnergyConsumed = @ + energyUsed]
      IN IF kwh <= 0 THEN triggerGameOver([w1 EXCEPT !.bus.status = "stranded"])
         ELSE IF deadheadProgress >= w1.bus.deadheadDistance
         THEN [w1 EXCEPT
                 !.bus.position = w1.bus.chargerDestination,
                 !.bus.isCharging = TRUE, !.bus.status = "charging",
                 !.bus.targetChargeKwh =
                     Min((w1.bus.batteryCapacity * 9) \div 10,
                         @ + EnergyForDeadhead(w1.bus.deadheadDistance, efficiency)),
                 !.bus.needsReturnTrip = TRUE,
                 !.bus.returnDestination = w1.bus.originalPosition,
                 !.bus.returnDistance = w1.bus.deadheadDistance]
         ELSE [w1 EXCEPT !.bus.position = [on |-> "deadhead", at |-> deadheadProgress]]

\* chargingRateKwhPerHour * hoursElapsed, for d quanta
EnergyCharged(kwhPerHour, d) ==
    (kwhPerHour * d * MilesPerUnit * KwhScale) \div baseSpeedMph

\* bus.chargingTimeHours >= MIDDAY_CHARGING.maxChargingDuration, the time in quanta
ChargingWindowExpired(chargingTime) ==
    chargingTime * MilesPerUnit >= maxChargingDuration * baseSpeedMph

\* Math.min(bus.batteryCapacity, bus.batteryKwh + energyAdded)
FillBattery(kwh, energyAdded, capacity) == Min(capacity, kwh + energyAdded)

\* a handleCharging that keeps charging when the window has expired
handleChargingNoWindow(w, d) ==
    LET b == w.bus
        kwhPerHour == IF Falsy(b.chargingKwhPerHour) THEN chargingRateKwhPerHour
                      ELSE b.chargingKwhPerHour
        chargingTime == OrZero(b.chargingTimeHours) + d
        kwh == FillBattery(b.batteryKwh, EnergyCharged(kwhPerHour, d), b.batteryCapacity)
        actualEnergyAdded == kwh - b.batteryKwh
        rate == IF Falsy(b.chargingRate) THEN daytimeRate ELSE b.chargingRate
        chargingCost == actualEnergyAdded * rate
        targetKwh == IF Falsy(b.targetChargeKwh) THEN (b.batteryCapacity * 8) \div 10
                     ELSE b.targetChargeKwh
        w1 == [w EXCEPT !.bus.chargingTimeHours = chargingTime,
                        !.bus.batteryKwh = kwh, !.bus.batteryLevel = LevelOf(kwh),
                        !.stats.electricCost = @ + chargingCost,
                        !.stats.midDayChargingCost = @ + chargingCost,
                        !.stats.midDayChargingKwh = @ + actualEnergyAdded]
    IN IF \/ kwh >= targetKwh
          \/ LevelOf(kwh) >= 95 * b.batteryCapacity
       THEN IF b.needsReturnTrip /\ b.returnDestination # NullPos
            THEN [w1 EXCEPT !.bus.isCharging = FALSE, !.bus.chargingTimeHours = 0,
                            !.bus.status = "returning-from-charger",
                            !.bus.returnProgress = 0]
            ELSE [w1 EXCEPT !.bus.isCharging = FALSE, !.bus.chargingTimeHours = 0,
                            !.bus.status = "moving",
                            !.bus.targetChargeKwh = NullNum,
                            !.bus.chargingRate = NullNum,
                            !.bus.chargingKwhPerHour = NullNum]
       ELSE w1

\* handleCharging
handleCharging(w, d) ==
    LET b == w.bus
        kwhPerHour == IF Falsy(b.chargingKwhPerHour) THEN chargingRateKwhPerHour
                      ELSE b.chargingKwhPerHour
        chargingTime == OrZero(b.chargingTimeHours) + d
        kwh == FillBattery(b.batteryKwh, EnergyCharged(kwhPerHour, d), b.batteryCapacity)
        actualEnergyAdded == kwh - b.batteryKwh
        rate == IF Falsy(b.chargingRate) THEN daytimeRate ELSE b.chargingRate
        chargingCost == actualEnergyAdded * rate
        targetKwh == IF Falsy(b.targetChargeKwh) THEN (b.batteryCapacity * 8) \div 10
                     ELSE b.targetChargeKwh
        w1 == [w EXCEPT !.bus.chargingTimeHours = chargingTime,
                        !.bus.batteryKwh = kwh, !.bus.batteryLevel = LevelOf(kwh),
                        !.stats.electricCost = @ + chargingCost,
                        !.stats.midDayChargingCost = @ + chargingCost,
                        !.stats.midDayChargingKwh = @ + actualEnergyAdded]
    IN IF \/ kwh >= targetKwh
          \/ LevelOf(kwh) >= 95 * b.batteryCapacity
          \/ ChargingWindowExpired(chargingTime)
       THEN IF b.needsReturnTrip /\ b.returnDestination # NullPos
            THEN [w1 EXCEPT !.bus.isCharging = FALSE, !.bus.chargingTimeHours = 0,
                            !.bus.status = "returning-from-charger",
                            !.bus.returnProgress = 0]
            ELSE [w1 EXCEPT !.bus.isCharging = FALSE, !.bus.chargingTimeHours = 0,
                            !.bus.status = "moving",
                            !.bus.targetChargeKwh = NullNum,
                            !.bus.chargingRate = NullNum,
                            !.bus.chargingKwhPerHour = NullNum]
       ELSE w1

\* a handleReturnFromCharger whose arrival leaves the bus where the frame
\* found it
handleReturnFromChargerNoSnap(w, d) ==
    IF w.bus.returnDestination = NullPos \/ Falsy(w.bus.returnDistance)
    THEN [w EXCEPT !.bus.status = "moving"]
    ELSE
      LET returnProgress == OrZero(w.bus.returnProgress) + d
          efficiency == getEfficiency(w.bus.busType, w.weather)
          energyUsed == EnergyForDeadhead(d, efficiency)
          kwh == DrainBattery(w.bus.batteryKwh, energyUsed)
          w1 == [w EXCEPT !.bus.returnProgress = returnProgress,
                          !.bus.batteryKwh = kwh,
                          !.bus.batteryLevel = LevelOf(kwh),
                          !.bus.energyConsumed = @ + energyUsed,
                          !.stats.totalDistance = @ + d,
                          !.stats.totalEnergyConsumed = @ + energyUsed]
      IN IF kwh <= 0 THEN triggerGameOver([w1 EXCEPT !.bus.status = "stranded"])
         ELSE IF returnProgress >= w1.bus.returnDistance
         THEN [w1 EXCEPT
                 !.bus.status = "moving",
                 !.bus.chargerDestination = NullPos,
                 !.bus.deadheadProgress = NullNum,
                 !.bus.deadheadDistance = NullNum,
                 !.bus.deadheadStartPosition = NullPos,
                 !.bus.originalPosition = NullPos,
                 !.bus.returnDestination = NullPos,
                 !.bus.returnDistance = NullNum,
                 !.bus.returnProgress = NullNum,
                 !.bus.needsReturnTrip = FALSE,
                 !.bus.targetChargeKwh = NullNum,
                 !.bus.chargingRate = NullNum,
                 !.bus.chargingKwhPerHour = NullNum]
         ELSE [w1 EXCEPT !.bus.position =
                 [on |-> "deadhead", at |-> w1.bus.returnDistance - returnProgress]]

\* handleReturnFromCharger
handleReturnFromCharger(w, d) ==
    IF w.bus.returnDestination = NullPos \/ Falsy(w.bus.returnDistance)
    THEN [w EXCEPT !.bus.status = "moving"]
    ELSE
      LET returnProgress == OrZero(w.bus.returnProgress) + d
          efficiency == getEfficiency(w.bus.busType, w.weather)
          energyUsed == EnergyForDeadhead(d, efficiency)
          kwh == DrainBattery(w.bus.batteryKwh, energyUsed)
          w1 == [w EXCEPT !.bus.returnProgress = returnProgress,
                          !.bus.batteryKwh = kwh,
                          !.bus.batteryLevel = LevelOf(kwh),
                          !.bus.energyConsumed = @ + energyUsed,
                          !.stats.totalDistance = @ + d,
                          !.stats.totalEnergyConsumed = @ + energyUsed]
      IN IF kwh <= 0 THEN triggerGameOver([w1 EXCEPT !.bus.status = "stranded"])
         ELSE IF returnProgress >= w1.bus.returnDistance
         THEN [w1 EXCEPT
                 !.bus.position = w1.bus.returnDestination,
                 !.bus.status = "moving",
                 !.bus.chargerDestination = NullPos,
                 !.bus.deadheadProgress = NullNum,
                 !.bus.deadheadDistance = NullNum,
                 !.bus.deadheadStartPosition = NullPos,
                 !.bus.originalPosition = NullPos,
                 !.bus.returnDestination = NullPos,
                 !.bus.returnDistance = NullNum,
                 !.bus.returnProgress = NullNum,
                 !.bus.needsReturnTrip = FALSE,
                 !.bus.targetChargeKwh = NullNum,
                 !.bus.chargingRate = NullNum,
                 !.bus.chargingKwhPerHour = NullNum]
         ELSE [w1 EXCEPT !.bus.position =
                 [on |-> "deadhead", at |-> w1.bus.returnDistance - returnProgress]]

\* the setTimeout of a dwell fires
dwellTimeout(w) ==
    [w EXCEPT !.bus.dwellUntil = DwellPast,
              !.bus.status = IF @ = "dwelling" THEN "moving" ELSE @]

\* the wall clock advances by d quanta: a dwell's timeout that is due within
\* them fires before the next frame's callback
DwellClock(w, d) ==
    IF w.bus.dwellUntil < 0 THEN w
    ELSE IF d > w.bus.dwellUntil THEN dwellTimeout(w)
    ELSE [w EXCEPT !.bus.dwellUntil = @ - d]

\* updateBus for a frame of d quanta
updateBus(w, d) ==
    IF w.bus.dwellUntil >= 0 THEN w
    ELSE
      LET w0 == [w EXCEPT !.bus.dwellUntil = NullNum] IN
      IF w0.bus.status = "traveling-to-charger" THEN handleDeadheadTravel(w0, d)
      ELSE IF w0.bus.status = "returning-from-charger" THEN handleReturnFromCharger(w0, d)
      ELSE IF w0.bus.isCharging THEN handleCharging(w0, d)
      ELSE LET w1 == IF w0.bus.status = "waiting"
                     THEN [w0 EXCEPT !.bus.status = "moving"] ELSE w0
           IN IF w1.bus.status = "moving" THEN moveBus(w1, d) ELSE w1

\* ------------------------------------------------------------------------
\* Day and week orchestration (src/app.js, state.js)

\* addDayScore, addBonus, addPenalty
addDayScore(w, day, points) ==
    [w EXCEPT !.score.dayScores = Append(@, [day |-> day, points |-> points]),
              !.score.total = @ + points]
addBonus(w, reason, points) ==
    [w EXCEPT !.score.bonuses = Append(@, [reason |-> reason, points |-> points]),
              !.score.total = @ + points]
addPenalty(w, reason, points) ==
    [w EXCEPT !.score.penalties = Append(@, [reason |-> reason, points |-> points]),
              !.score.total = @ + points]

\* the decisions recorded for a day (decisions.find takes the first)
DecisionsOf(w, day) == SelectSeq(w.decisions, LAMBDA dec : dec.day = day)

\* calculateDayScore
calculateDayScore(w) ==
    LET charged == w.stats.midDayCharges > 0
        w1 == IF charged
              THEN addPenalty(w, "Mid-day charging", midDayChargePenalty)
              ELSE w
        base == dayCompleted
                + (IF charged THEN midDayChargePenalty ELSE noMidDayChargeBonus)
        last == DecisionsOf(w, w.week.currentDay)
        capacity == w.config.batteryCapacity
        \* endPercent = targetPercent - actualUsed, as percent * capacity
        endPercent == IF last = <<>> THEN 0
                      ELSE last[1].targetPercent * capacity
                           - 100 * w.stats.totalEnergyConsumed
        efficient == last # <<>> /\ endPercent >= 10 * capacity
                                 /\ endPercent <= 25 * capacity
        over == last # <<>> /\ endPercent > 25 * capacity
        penalty == Round(overchargePerKwhPenalty * (endPercent - 25 * capacity),
                         100 * KwhScale)
        w2 == IF efficient
              THEN addBonus(w1, "Efficient overnight charging", efficientChargeBonus)
              ELSE w1
        dayPoints == base + (IF efficient THEN efficientChargeBonus
                             ELSE IF over THEN penalty ELSE 0)
    IN addDayScore(w2, w.week.currentDay, dayPoints)

\* advanceDay: the new state; it returns week.currentDay <= 3
advanceDay(w) ==
    LET next == w.week.currentDay + 1 IN
    [w EXCEPT
       !.week.dayResults = Append(@, [day |-> w.week.currentDay,
                                      weather |-> w.weather,
                                      midDayCharged |-> w.stats.midDayCharges > 0,
                                      cost |-> w.stats.electricCost,
                                      distance |-> w.stats.totalDistance,
                                      energyConsumed |-> w.stats.totalEnergyConsumed]),
       !.week.totalMidDayCharges = @ + w.stats.midDayCharges,
       !.week.totalMidDayCost = @ + w.stats.midDayChargingCost,
       !.week.currentDay = next,
       !.weather = IF HasSchedule(next)
                   THEN ScheduleWeather(w.config.weatherPattern, next) ELSE @]

\* the optimal distance computed for fair weather
optimalOneWayFair(cfg) ==
    (cfg.batteryCapacity * (100 - safetyBufferPct))
        \div (2 * KwhScale * getEfficiency(cfg.busType, "fair"))

\* Math.floor((usableCapacity / efficiency) / 2), miles
optimalOneWay(cfg) ==
    (cfg.batteryCapacity * (100 - safetyBufferPct))
        \div (2 * KwhScale * getEfficiency(cfg.busType, "extreme"))

\* calculateFinalScore
calculateFinalScore(w) ==
    LET w1 == IF Abs(w.config.guessDistance - optimalOneWay(w.config)) <= 3
              THEN addBonus(w, "Perfect route prediction", perfectRoutePrediction)
              ELSE w
        w2 == IF w1.week.totalMidDayCharges = 0
              THEN addBonus(w1, "Perfect week - no mid-day charges", perfectWeekBonus)
              ELSE w1
        m2 == DifficultyMultiplierTimes2(w.config.weatherPattern)
        bonusFromDifficulty == Round(w2.score.total * (m2 - 2), 2)
    IN IF m2 # 2 /\ bonusFromDifficulty > 0
       THEN addBonus(w2, "difficulty bonus", bonusFromDifficulty)
       ELSE w2

\* showWeekResult
showWeekResult(w) ==
    [w EXCEPT !.completionModal =
        [shown |-> TRUE, title |-> "Week Result", finalScore |-> w.score.total]]

\* resetBusForNewDay(bus, route, chargePercent)
\* a reset that never lowers the battery
resetBusKeepCharge(w, chargePercent) ==
    LET targetKwh == Max(w.bus.batteryKwh, (chargePercent * w.bus.batteryCapacity) \div 100)
    IN [w EXCEPT !.bus = [initializeBuses(w.route, w.config) EXCEPT
                             !.batteryLevel = LevelOf(targetKwh),
                             !.batteryKwh = targetKwh],
                 !.checksToday = 0]

\* a reset that keeps the flags of the mid-day check
resetBusKeepSchoolFlags(w, chargePercent) ==
    LET b == w.bus
        targetKwh == (chargePercent * b.batteryCapacity) \div 100
        energyToAdd == Max(0, targetKwh - b.batteryKwh)
        chargingCost == energyToAdd * overnightRate
        fresh == initializeBuses(w.route, w.config)
    IN [w EXCEPT
          !.week.totalOvernightCost = IF energyToAdd > 0 THEN @ + chargingCost ELSE @,
          !.stats.nightlyChargingKwh = IF energyToAdd > 0 THEN @ + energyToAdd ELSE @,
          !.stats.nightlyChargingCost = IF energyToAdd > 0 THEN @ + chargingCost ELSE @,
          !.bus = [fresh EXCEPT !.busType = b.busType,
                                !.batteryCapacity = b.batteryCapacity,
                                !.batteryLevel = chargePercent * b.batteryCapacity,
                                !.batteryKwh = targetKwh,
                                !.arrivedAtSchool = b.arrivedAtSchool,
                                !.midDayChargeChecked = b.midDayChargeChecked],
          !.route.stops = [i \in 1..Len(w.route.stops) |->
                             [w.route.stops[i] EXCEPT !.completed = FALSE]],
          !.checksToday = 0]

resetBusForNewDay(w, chargePercent) ==
    LET b == w.bus
        targetKwh == (chargePercent * b.batteryCapacity) \div 100
        energyToAdd == Max(0, targetKwh - b.batteryKwh)
        chargingCost == energyToAdd * overnightRate
        fresh == initializeBuses(w.route, w.config)
    IN [w EXCEPT
          !.week.totalOvernightCost = IF energyToAdd > 0 THEN @ + chargingCost ELSE @,
          !.stats.nightlyChargingKwh = IF energyToAdd > 0 THEN @ + energyToAdd ELSE @,
          !.stats.nightlyChargingCost = IF energyToAdd > 0 THEN @ + chargingCost ELSE @,
          !.bus = [fresh EXCEPT !.busType = b.busType,
                                !.batteryCapacity = b.batteryCapacity,
                                !.batteryLevel = chargePercent * b.batteryCapacity,
                                !.batteryKwh = targetKwh],
          !.route.stops = [i \in 1..Len(w.route.stops) |->
                             [w.route.stops[i] EXCEPT !.completed = FALSE]],
          !.checksToday = 0]

\* continueToNextDay(chargePercent, newRouteDistance) up to its first await;
\* without a new route distance it runs to its end
continueToNextDay(w, chargePercent, newRouteDistance) ==
    LET w1 == [w EXCEPT !.stats = resetStats,
                        !.simulation = resetSimulation]
    IN IF ~Falsy(newRouteDistance)
       THEN [w1 EXCEPT !.regenRequests =
                Append(@, [chargePercent |-> chargePercent,
                           newRouteDistance |-> newRouteDistance])]
       ELSE [resetBusForNewDay(w1, chargePercent) EXCEPT !.startTimer = TRUE]

\* showNightlyChargingDecision
showNightlyChargingDecision(w) ==
    IF ~HasSchedule(w.week.currentDay) THEN continueToNextDay(w, 100, NullNum)
    ELSE [w EXCEPT !.showNightlyChargingModal = TRUE]

\* handleDayComplete
handleDayComplete(w) ==
    LET w1 == stopSimulation(w)
        baseEnergy == w1.stats.totalEnergyConsumed - w1.stats.midDayChargingKwh
        w2 == [w1 EXCEPT !.stats.electricCost =
                  baseEnergy * overnightRate + w1.stats.midDayChargingCost]
        w3 == advanceDay(calculateDayScore(w2))
    IN IF w3.week.currentDay <= LastDay
       THEN showNightlyChargingDecision(w3)
       ELSE showWeekResult(calculateFinalScore(w3))

\* recordNightlyCharging
recordNightlyCharging(w, decision) ==
    [w EXCEPT !.decisions = Append(@, decision),
              !.week.totalOvernightCost = @ + decision.cost]

\* the overnight energy with the V2G discharge left out
NightlyEnergyNoV2G(targetPercent, capacity, kwh, v2gAmount) ==
    Max(0, (targetPercent * capacity) \div 100 - kwh)

\* Math.max(0, targetKwh - afterV2GKwh)
NightlyEnergy(targetPercent, capacity, kwh, v2gAmount) ==
    Max(0, (targetPercent * capacity) \div 100 - (kwh - v2gAmount))

\* confirmNightlyCharging(targetPercent, newRouteDistance, v2gAmount, v2gEarned)
confirmNightlyCharging(w, targetPercent, newRouteDistance, v2gAmount, v2gEarned) ==
    LET b == w.bus
        energyToAdd == NightlyEnergy(targetPercent, b.batteryCapacity, b.batteryKwh,
                                     v2gAmount)
        cost == energyToAdd * overnightRate
        w1 == IF v2gAmount > 0
              THEN [w EXCEPT !.stats.v2gEarnings = @ + v2gEarned,
                             !.stats.v2gKwhDischarged = @ + v2gAmount,
                             !.week.totalV2GEarnings = @ + v2gEarned,
                             !.week.totalV2GKwh = @ + v2gAmount]
              ELSE w
        previousRouteDistance == IF Falsy(w.config.adjustedRouteDistance)
                                 THEN w.config.guessDistance
                                 ELSE w.config.adjustedRouteDistance
        needsRouteRegeneration == newRouteDistance # NullNum
                                  /\ newRouteDistance # previousRouteDistance
        w2 == IF newRouteDistance # NullNum
              THEN [w1 EXCEPT !.config.adjustedRouteDistance = newRouteDistance]
              ELSE w1
        w3 == recordNightlyCharging(w2,
                [day |-> w.week.currentDay, targetPercent |-> targetPercent,
                 startPercent |-> b.batteryLevel, energyCharged |-> energyToAdd,
                 cost |-> cost, routeAdjusted |-> needsRouteRegeneration,
                 newRouteDistance |-> newRouteDistance,
                 v2gAmount |-> v2gAmount, v2gEarned |-> v2gEarned])
    IN continueToNextDay([w3 EXCEPT !.showNightlyChargingModal = FALSE],
                         targetPercent,
                         IF needsRouteRegeneration THEN newRouteDistance ELSE NullNum)

\* a deadhead penalty on the distance from the school to the station
deadheadPenaltyOneWay(station) ==
    Round(station.distanceFromSchool * deadheadPenaltyPerMile, 1)

\* Math.round(deadheadMiles * MIDDAY_CHARGING.deadheadPenaltyPerMile)
deadheadPenalty(station) ==
    Round(station.deadheadMiles * deadheadPenaltyPerMile, 1)

\* confirmCharging(stationId, station) up to its await; for the charger at the
\* school it runs to its end
confirmCharging(w, station) ==
    IF ~w.pendingCharge.set THEN w
    ELSE
      LET isAtSchool == station.locationType = "school"
          w1 == [w EXCEPT !.bus.usedMidDayCharge = TRUE,
                          !.bus.chargingStation = station.id,
                          !.bus.chargingRate = station.rate,
                          !.bus.chargingKwhPerHour = station.kwhPerHour,
                          !.bus.targetChargeKwh =
                              w.bus.batteryKwh + w.pendingCharge.energyNeeded,
                          !.stats.midDayCharges = @ + 1,
                          !.week.totalMidDayCharges = @ + 1]
          w2 == IF station.deadheadMiles > 0 /\ ~isAtSchool
                THEN [addPenalty(w1, "Deadhead", -deadheadPenalty(station))
                        EXCEPT !.stats.deadheadMiles = @ + station.deadheadMiles]
                ELSE w1
          w3 == [w2 EXCEPT !.bus.originalPosition = w2.bus.position,
                           !.bus.chargerDestination = StationPos(station, w2.route)]
      IN IF isAtSchool
         THEN [clearPendingCharge([w3 EXCEPT !.bus.isCharging = TRUE,
                                             !.bus.status = "charging"])
                 EXCEPT !.startTimer = TRUE]
         ELSE [w3 EXCEPT !.bus.status = "traveling-to-charger",
                         !.osrmRequests = Append(@, station.osrm)]

\* confirmCharging after getOSRMRouteBetweenPoints has returned a route
confirmChargingResumed(w, distance) ==
    [clearPendingCharge([w EXCEPT !.bus.deadheadDistance = distance,
                                  !.bus.deadheadProgress = 0,
                                  !.bus.deadheadStartPosition = w.bus.position])
       EXCEPT !.startTimer = TRUE]

\* a startSimulation that also sets a finished bus in motion
startSimulationRevive(w) ==
    [w EXCEPT !.simulation.paused = FALSE, !.simulation.running = TRUE,
              !.simulationInterval = TRUE,
              !.bus.status = IF @ \in {"stranded", "completed"} THEN "moving" ELSE @]

\* startSimulation
startSimulation(w) ==
    IF w.simulation.running /\ ~w.simulation.paused THEN w
    ELSE [w EXCEPT !.simulation.paused = FALSE,
                   !.simulation.running = TRUE,
                   !.simulationInterval = TRUE]

\* pauseSimulation
pauseSimulation(w) ==
    IF ~w.simulation.running THEN w
    ELSE [w EXCEPT !.simulation.paused = TRUE, !.simulationInterval = FALSE]

\* setTimeout(() => startSimulation(), 500) fires
startTimeout(w) == startSimulation([w EXCEPT !.startTimer = FALSE])

\* the wall clock advances by d quanta: the timeouts due within them fire
\* before the next frame's callback
WallClock(w, d) ==
    LET w1 == DwellClock(w, d) IN
    IF w1.startTimer /\ d > DwellQuanta(500, w1.route) THEN startTimeout(w1) ELSE w1

\* bus.chargingTimeHours (quanta) in hundredths of an hour
ChargingClock(chargingTime) ==
    (chargingTime * MilesPerUnit * ClockScale) \div baseSpeedMph

\* calculateTimeFromProgress(progress, chargingTimeHours, atSchool) for a
\* progress along a route path of the given length
calculateTimeFromProgress(progress, distance, chargingTime, atSchool) ==
    IF (distance = 0 \/ 2 * progress < distance) /\ ~atSchool
    THEN amTripStart * ClockScale
           + (IF distance = 0 THEN 0
              ELSE (2 * progress * (amTripEnd - amTripStart) * ClockScale) \div distance)
    ELSE IF atSchool \/ chargingTime > 0
    THEN midDayStart * ClockScale
           + Min(ChargingClock(chargingTime), (midDayEnd - midDayStart) * ClockScale)
    ELSE pmTripStart * ClockScale
           + ((2 * progress - distance) * (pmTripEnd - pmTripStart) * ClockScale)
                \div distance

\* simulationLoop: the simulated clock recomputed from the bus after its update
updateClock(w) ==
    LET b == w.bus
        isCharging == b.isCharging \/ b.status = "charging"
        atSchool == b.arrivedAtSchool /\ 100 * b.progress < 55 * w.route.distance
        isTravelingToCharger ==
            b.status \in {"traveling-to-charger", "returning-from-charger"}
        chargingTime == IF isCharging THEN OrZero(b.chargingTimeHours) ELSE 0
    IN [w EXCEPT !.simulation.currentTime =
           calculateTimeFromProgress(b.progress, w.route.distance, chargingTime,
                                     atSchool \/ isTravelingToCharger)]

\* a simulationLoop that does not look at the pending decisions
simulationLoopUnguarded(w, d) ==
    IF ~w.simulation.running \/ w.simulation.paused THEN w
    ELSE
      LET w1 == [w EXCEPT !.simulation.elapsedTime = @ + d]
          allCompleted == w1.bus.status = "completed"
          w2 == updateClock(IF allCompleted THEN w1 ELSE updateBus(w1, d))
      IN IF allCompleted THEN handleDayComplete(w2) ELSE w2

\* simulationLoop for a frame of d quanta
simulationLoop(w, d) ==
    IF ~w.simulation.running \/ w.simulation.paused THEN w
    ELSE IF w.pendingCharge.set THEN w
    ELSE IF w.showNightlyChargingModal THEN w
    ELSE
      LET w1 == [w EXCEPT !.simulation.elapsedTime = @ + d]
          allCompleted == w1.bus.status = "completed"
          w2 == updateClock(IF allCompleted THEN w1 ELSE updateBus(w1, d))
      IN IF allCompleted THEN handleDayComplete(w2) ELSE w2

\* ------------------------------------------------------------------------
\* Actions

\* the wall clock advances by d quanta and the interval timer calls
\* simulationLoop.  Without an interval there is no call, and
\* simulationLoop(w, d) = w then: the loop runs only between startSimulation,
\* which sets an interval, and pauseSimulation or stopSimulation, which clear it
Tick ==
    \E d \in TickUnits :
        /\ simulation.elapsedTime + d <= MaxElapsedTime
        /\ week.currentDay <= MaxWeekDay
        /\ Becomes(simulationLoop(WallClock(World, d), d))

\* the start button, or any caller of the exported startSimulation
StartSimulation == Becomes(startSimulation(World))

\* the pause button
PauseSimulation == Becomes(pauseSimulation(World))

\* setTimeout(() => startSimulation(), 500) fires
StartTimerFires ==
    /\ startTimer
    /\ Becomes(startTimeout(World))

\* setTimeout(() => { if (bus.status === 'dwelling') bus.status = 'moving' }, ms)
\* fires between two frames
DwellTimerFires ==
    /\ bus.dwellUntil >= 0
    /\ Becomes(dwellTimeout(World))

\* the player confirms a station in the charging modal
ConfirmCharging ==
    \E station \in getAvailableChargingStations :
        /\ pendingCharge.set
        /\ stats.midDayCharges < MaxMidDayCharges
        /\ Becomes(confirmCharging(World, station))

\* getOSRMRouteBetweenPoints returns the routed path
OsrmResolves ==
    /\ osrmRequests # <<>>
    /\ Becomes(confirmChargingResumed(
                   [World EXCEPT !.osrmRequests = Tail(@)], Head(osrmRequests)))

\* the request fails: the fallback of getOSRMRouteBetweenPoints calls the
\* undefined haversine and the await in confirmCharging throws
OsrmFails ==
    /\ osrmRequests # <<>>
    /\ Becomes([World EXCEPT !.osrmRequests = Tail(@)])

\* V2G potential offered by the nightly modal
availableForV2G(w) ==
    Max(0, w.bus.batteryKwh - (w.config.batteryCapacity * minDischargeLevelPct) \div 100)

\* the player confirms the nightly charging decision
ConfirmNightlyCharging ==
    \E choice \in NightlyChoices :
        LET targetPercent == choice[1]
            newRouteDistance == choice[2]
            v2gAmount == IF choice[3] THEN availableForV2G(World) ELSE 0
        IN
        /\ showNightlyChargingModal
        /\ Becomes(confirmNightlyCharging(World, targetPercent, newRouteDistance,
                                          v2gAmount, v2gAmount * dischargeRate))

\* regenerateRoute returns the new route
RegenResolves ==
    /\ regenRequests # <<>>
    /\ LET req == Head(regenRequests)
           w1 == [World EXCEPT !.regenRequests = Tail(@),
                               !.route = generateRoute(1, req.newRouteDistance)]
       IN Becomes([resetBusForNewDay(w1, req.chargePercent) EXCEPT !.startTimer = TRUE])

\* a failure of regenerateRoute that is not caught: the bus is not reset and
\* no start is scheduled
RegenFailsStalls ==
    /\ regenRequests # <<>>
    /\ Becomes([World EXCEPT !.regenRequests = Tail(@)])

\* regenerateRoute throws: continueToNextDay falls back to the existing route
RegenFails ==
    /\ regenRequests # <<>>
    /\ LET req == Head(regenRequests)
           w1 == [World EXCEPT !.regenRequests = Tail(@)]
       IN Becomes([resetBusForNewDay(w1, req.chargePercent) EXCEPT !.startTimer = TRUE])

Next ==
    \/ Tick
    \/ StartSimulation
    \/ PauseSimulation
    \/ StartTimerFires
    \/ DwellTimerFires
    \/ ConfirmCharging
    \/ OsrmResolves
    \/ OsrmFails
    \/ ConfirmNightlyCharging
    \/ RegenResolves
    \/ RegenFails

Spec == Init /\ [][Next]_vars

\* regenerateRoute returns a route whose path is degenerate
RegenResolvesDegenerate ==
    /\ regenRequests # <<>>
    /\ \E points \in DegeneratePathPoints :
          LET req == Head(regenRequests)
              w1 == [World EXCEPT !.regenRequests = Tail(@),
                                  !.route = degenerateRoute(1, points)]
          IN Becomes([resetBusForNewDay(w1, req.chargePercent)
                        EXCEPT !.startTimer = TRUE])

\* the player confirms the nightly decision with the charge slider at 0 and
\* the route slider moved, without V2G
ConfirmNightlyEmpty ==
    /\ showNightlyChargingModal
    /\ Becomes(confirmNightlyCharging(World, 0, 12, 0, 0))

\* the program with a routing service that may also answer a route
\* regeneration with a degenerate path
NextDegenerate ==
    \/ Tick
    \/ StartSimulation
    \/ PauseSimulation
    \/ StartTimerFires
    \/ DwellTimerFires
    \/ ConfirmCharging
    \/ OsrmResolves
    \/ OsrmFails
    \/ ConfirmNightlyCharging
    \/ RegenResolves
    \/ RegenFails
    \/ RegenResolvesDegenerate
    \/ ConfirmNightlyEmpty

DegenerateSpec == Init /\ [][NextDegenerate]_vars

\* ------------------------------------------------------------------------
\* The program driven through the nightly modal (ui.js)

\* state.config.adjustedRouteDistance || state.config.guessDistance
routeDistanceInUse(cfg) ==
    IF Falsy(cfg.adjustedRouteDistance) THEN cfg.guessDistance
    ELSE cfg.adjustedRouteDistance

\* the click on 'confirm-nightly-charge': the handler reads the sliders (the
\* route slider starts at the distance in use), saves the adjusted route
\* distance in the configuration, and calls confirmNightlyCharging
NightlyConfirmClicked ==
    \E choice \in NightlyChoices :
        LET targetPercent == choice[1]
            newRouteDistance == IF choice[2] = NullNum THEN routeDistanceInUse(config)
                                ELSE choice[2]
            v2gAmount == IF choice[3] THEN availableForV2G(World) ELSE 0
            w0 == [World EXCEPT !.config.adjustedRouteDistance = newRouteDistance]
        IN
        /\ showNightlyChargingModal
        /\ Becomes(confirmNightlyCharging(w0, targetPercent, newRouteDistance,
                                          v2gAmount, v2gAmount * dischargeRate))

NextModal ==
    \/ Tick
    \/ StartSimulation
    \/ PauseSimulation
    \/ StartTimerFires
    \/ DwellTimerFires
    \/ ConfirmCharging
    \/ OsrmResolves
    \/ OsrmFails
    \/ NightlyConfirmClicked

ModalSpec == Init /\ [][NextModal]_vars

\* ------------------------------------------------------------------------
\* A day that starts from a nightly decision, with time for a whole mid-day
\* charging window

\* the charge slider of the nightly decision before the day (percent)
StartPercents == {50, 70, 90}
\* the days that start from a nightly decision
LaterDays == {2, 3}

\* the state after continueToNextDay for the given day and charge: the stats
\* and the simulation are reset, the bus is reset onto the route at the
\* chosen charge, and the start of the loop is scheduled; the results of the
\* earlier days are not carried
InitCharging ==
    /\ config = [busType |-> "A", batteryCapacity |-> defaultCapacity * KwhScale,
                 guessDistance |-> 29, adjustedRouteDistance |-> NullNum,
                 weatherPattern |-> "fall"]
    /\ route = generateRoute(1, config.guessDistance)
    /\ \E day \in LaterDays, chargePercent \in StartPercents :
          /\ bus = [initializeBuses(route, config) EXCEPT
                       !.batteryKwh = (chargePercent * config.batteryCapacity) \div 100,
                       !.batteryLevel = chargePercent * config.batteryCapacity]
          /\ week = [resetWeek EXCEPT !.currentDay = day]
          /\ weather = ScheduleWeather("fall", day)
    /\ stats = resetStats
    /\ score = [total |-> 0, dayScores |-> <<>>, bonuses |-> <<>>, penalties |-> <<>>]
    /\ decisions = <<>>
    /\ simulation = resetSimulation
    /\ pendingCharge = NoPendingCharge
    /\ showNightlyChargingModal = FALSE
    /\ simulationInterval = FALSE
    /\ startTimer = TRUE
    /\ osrmRequests = <<>>
    /\ regenRequests = <<>>
    /\ completionModal = NoModal
    /\ checksToday = 0

\* a frame of the loop within the longer day
TickCharging ==
    \E d \in TickUnits :
        /\ simulation.elapsedTime + d <= MaxChargingTime
        /\ week.currentDay <= MaxWeekDay
        /\ Becomes(simulationLoop(WallClock(World, d), d))

NextCharging ==
    \/ TickCharging
    \/ StartSimulation
    \/ PauseSimulation
    \/ StartTimerFires
    \/ DwellTimerFires
    \/ ConfirmCharging
    \/ OsrmResolves
    \/ OsrmFails

ChargingSpec == InitCharging /\ [][NextCharging]_vars

\* ------------------------------------------------------------------------
\* Properties

\* C1: in every reachable state the battery holds between 0 and its capacity
\* and batteryLevel is 100 * batteryKwh / batteryCapacity (batteryLevel is kept
\* as percent * capacity)
C1_BatteryWithinCapacity ==
    /\ 0 <= bus.batteryKwh
    /\ bus.batteryKwh <= bus.batteryCapacity
    /\ bus.batteryLevel = 100 * bus.batteryKwh

\* a bus that ran dry on a deadhead leg: the drain was clamped at 0
C1_Witness ==
    /\ bus.status = "stranded"
    /\ bus.batteryKwh = 0
    /\ bus.chargerDestination # NullPos
    /\ bus.deadheadProgress > 0

C3_FinishedBusStays ==
    [][bus.status \in {"stranded", "completed"} =>
         \/ bus'.status = "waiting"
         \/ /\ bus'.position = bus.position
            /\ bus'.progress = bus.progress
            /\ bus'.batteryKwh = bus.batteryKwh
            /\ bus'.status = bus.status]_vars

\* the loop was started again after the bus stranded and frames ran until the
\* day's time bound
C3_Witness ==
    /\ bus.status = "stranded"
    /\ simulation.running /\ ~simulation.paused
    /\ simulation.elapsedTime = MaxElapsedTime

\* C4: a day driven to completion has evaluated the mid-day charging decision
\* exactly once (midDayChargeChecked went from false to true once)
C4_CheckedOncePerDay ==
    bus.status = "completed" => (bus.midDayChargeChecked /\ checksToday = 1)

\* C5: when midDayChargeChecked becomes true the progress is at most 0.5
C5_CheckedByHalfway ==
    [][(~bus.midDayChargeChecked /\ bus'.midDayChargeChecked) =>
          2 * bus'.progress <= route'.distance]_vars

\* C5 as the code has it: when midDayChargeChecked becomes true the bus is
\* within the arrival threshold of the school stop, or its progress is in the
\* window from 0.48 to 0.52
C5_CheckedAtSchoolOrWindow ==
    [][(~bus.midDayChargeChecked /\ bus'.midDayChargeChecked) =>
          \/ \E i \in 1..Len(route'.stops) :
                /\ route'.stops[i].type = "school"
                /\ Abs(bus'.position.at - route'.stops[i].at) * MilesPerUnit * 100 < 15
          \/ /\ 48 * route'.distance <= 100 * bus'.progress
             /\ 100 * bus'.progress <= 52 * route'.distance]_vars

\* the check was made by the fallback, past the halfway point
C5_Witness ==
    /\ bus.midDayChargeChecked
    /\ bus.arrivedAtSchool
    /\ bus.currentStopIndex = 0
    /\ 2 * bus.progress > route.distance
    /\ 100 * bus.progress <= 52 * route.distance

\* C6: while a charging decision or a nightly decision is pending, a frame of
\* the loop changes no bus field, no day statistic and not the elapsed time
C6_PendingFrameIsNoOp ==
    (pendingCharge.set \/ showNightlyChargingModal) =>
        \A d \in TickUnits :
            LET w == simulationLoop(World, d)
            IN /\ w.bus = bus
               /\ w.stats = stats
               /\ w.simulation.elapsedTime = simulation.elapsedTime

\* the loop was started while the charging decision is pending: its frames
\* reach the check of the pending decision
C6_Witness ==
    /\ pendingCharge.set
    /\ simulation.running /\ ~simulation.paused /\ simulationInterval

\* C7: the mid-day check requires charging exactly when the battery predicted
\* at the depot, (batteryKwh - (route.distance / 2) * efficiency) / capacity,
\* is below the minimum return charge; it then records a pending charge for
\* max(0, minReturnCharge * capacity + PM energy - batteryKwh) and stops the
\* loop; otherwise it records no pending charge. With 25 of 100 kWh and 38 kWh
\* for the PM trip: charging is required and 28 kWh are to be added.
C7_MidDayCheck ==
    /\ NeedsCharging(2500, 3800, 10000)
    /\ EnergyToAdd(2500, 3800, 10000) = 2800
    /\ [][(~bus.midDayChargeChecked /\ bus'.midDayChargeChecked) =>
            LET kwh == bus'.batteryKwh
                capacity == bus'.batteryCapacity
                pm == (route'.distance * MilesPerUnit
                         * getEfficiency(bus'.busType, weather') * KwhScale) \div 200
                required == (kwh - pm) * 100 < minReturnChargePct * capacity
            IN IF required
               THEN /\ pendingCharge'.set
                    /\ pendingCharge'.energyNeeded =
                          Max(0, (minReturnChargePct * capacity) \div 100 + pm - kwh)
                    /\ bus'.needsMidDayCharge
                    /\ ~simulation'.running /\ ~simulationInterval'
               ELSE /\ ~pendingCharge'.set
                    /\ ~bus'.needsMidDayCharge]_vars

\* the check found that charging is required and recorded the energy to add
C7_Witness ==
    /\ pendingCharge.set /\ pendingCharge.energyNeeded > 0
    /\ bus.midDayChargeChecked /\ bus.needsMidDayCharge
    /\ bus.status = "at-school"
    /\ ~simulation.running

\* C8: when the battery reaches 0 while the bus is moving or on a deadhead
\* leg the bus becomes stranded, the loop is stopped and the game-over modal
\* is shown with final score 0; once the game is over no day result is
\* recorded, no day score is added and the day counter does not advance
C8_StrandingEndsTheGame ==
    [][/\ (/\ bus.batteryKwh > 0 /\ bus'.batteryKwh = 0
           /\ bus.status \in {"moving", "dwelling", "traveling-to-charger",
                              "returning-from-charger"})
          => /\ bus'.status = "stranded"
             /\ ~simulation'.running /\ ~simulationInterval'
             /\ completionModal' = [shown |-> TRUE, title |-> "Bus Stranded!",
                                    finalScore |-> 0]
       /\ completionModal.title = "Bus Stranded!"
          => /\ week'.dayResults = week.dayResults
             /\ score'.dayScores = score.dayScores
             /\ week'.currentDay = week.currentDay]_vars

\* C9: resetBusForNewDay with any T in 0..100, from any battery level, leaves
\* batteryLevel = T and batteryKwh = T / 100 * batteryCapacity
C9_ResetSetsBattery ==
    \A T \in 0..100 :
        LET b == resetBusForNewDay(World, T).bus
        IN /\ b.batteryLevel = T * b.batteryCapacity
           /\ 100 * b.batteryKwh = T * b.batteryCapacity

\* the night's reset raised the battery to the 40% that was chosen
C9_Witness ==
    /\ bus.status = "waiting" /\ week.currentDay = 2
    /\ decisions # <<>>
    /\ decisions[Len(decisions)].targetPercent = 40
    /\ decisions[Len(decisions)].startPercent < bus.batteryLevel
    /\ bus.batteryLevel = 40 * bus.batteryCapacity
    /\ regenRequests = <<>>

\* C10: a nightly confirmation with target T and V2G discharge v records the
\* energy max(0, T / 100 * capacity - (batteryKwh - v)) and the cost of that
\* energy at the overnight rate; 40% target at 20% of 100 kWh without V2G
\* gives 20 kWh
C10_NightlyEnergyRecorded ==
    /\ NightlyEnergy(40, 10000, 2000, 0) = 2000
    /\ [][Len(decisions') = Len(decisions) + 1 =>
            LET decision == decisions'[Len(decisions')]
                targetKwh == (decision.targetPercent * bus.batteryCapacity) \div 100
            IN /\ decision.energyCharged =
                     Max(0, targetKwh - (bus.batteryKwh - decision.v2gAmount))
               /\ decision.cost = decision.energyCharged * overnightRate
               /\ week'.totalOvernightCost >= week.totalOvernightCost + decision.cost]_vars

\* a decision with a V2G discharge was recorded: 20 kWh to reach 40%
C10_Witness ==
    /\ decisions # <<>>
    /\ decisions[Len(decisions)].v2gAmount > 0
    /\ decisions[Len(decisions)].targetPercent = 40
    /\ decisions[Len(decisions)].energyCharged = 2000
    /\ decisions[Len(decisions)].cost = 2000 * overnightRate

\* the sum of the costs of the nightly decisions ds
RECURSIVE DecisionCosts(_)
DecisionCosts(ds) ==
    IF ds = <<>> THEN 0
    ELSE Head(ds).energyCharged * overnightRate + DecisionCosts(Tail(ds))

\* C11: in every state the week's cumulative overnight cost equals the sum,
\* over the nightly decisions confirmed so far, of the energy added that
\* night times the overnight rate
C11_OvernightCostOnce ==
    week.totalOvernightCost = DecisionCosts(decisions)

\* the perfect-week bonuses in the score's bonus list
PerfectWeekBonuses ==
    SelectSeq(score.bonuses, LAMBDA b : b.reason = "Perfect week - no mid-day charges")

\* C12: when the week is finalised and no mid-day charge was confirmed on any
\* day, the bonus list holds the perfect-week bonus exactly once
C12_PerfectWeekBonusOnce ==
    (completionModal.title = "Week Result" /\ week.totalMidDayCharges = 0)
        => Len(PerfectWeekBonuses) = 1

\* ------------------------------------------------------------------------
\* Scoring on its own: calculateDayScore and calculateFinalScore applied to
\* the configurations of the splash screen and to a range of day outcomes

\* one-way guesses, bus classes and day outcomes
ScoringGuesses == 15..35
BusTypes == {"A", "C"}
ConsumedKwh == {0, 1500, 2000, 3000, 3100, 7025, 7540}
ScoredTargets == {NullNum, 40, 100}

\* setupScenarioConfig: the default capacity of the bus type
CapacityOf(busType) ==
    (IF busType = "A" THEN defaultCapacity ELSE typeCCapacity) * KwhScale

InitScoring ==
    /\ \E guess \in ScoringGuesses, busType \in BusTypes :
          config = [busType |-> busType, batteryCapacity |-> CapacityOf(busType),
                    guessDistance |-> guess, adjustedRouteDistance |-> NullNum,
                    weatherPattern |-> "fall"]
    /\ route = generateRoute(1, config.guessDistance)
    /\ bus = initializeBuses(route, config)
    /\ stats = resetStats
    /\ week = resetWeek
    /\ weather = ScheduleWeather("fall", 1)
    /\ score = [total |-> 0, dayScores |-> <<>>, bonuses |-> <<>>, penalties |-> <<>>]
    /\ decisions = <<>>
    /\ simulation = resetSimulation
    /\ pendingCharge = NoPendingCharge
    /\ showNightlyChargingModal = FALSE
    /\ simulationInterval = FALSE
    /\ startTimer = FALSE
    /\ osrmRequests = <<>>
    /\ regenRequests = <<>>
    /\ completionModal = NoModal
    /\ checksToday = 0

\* calculateDayScore for a day that ended with the given statistics
ScoreDay ==
    \E charges \in {0, 1}, target \in ScoredTargets, used \in ConsumedKwh :
        /\ score.dayScores = <<>>
        /\ ~completionModal.shown
        /\ LET w == [World EXCEPT
                        !.stats.midDayCharges = charges,
                        !.stats.totalEnergyConsumed = used,
                        !.decisions =
                            IF target = NullNum THEN <<>>
                            ELSE <<[day |-> week.currentDay, targetPercent |-> target,
                                    startPercent |-> 0, energyCharged |-> 0,
                                    cost |-> 0, routeAdjusted |-> FALSE,
                                    newRouteDistance |-> NullNum,
                                    v2gAmount |-> 0, v2gEarned |-> 0]>>]
           IN Becomes(calculateDayScore(w))

\* calculateFinalScore and showWeekResult at the end of the week
ScoreWeek ==
    /\ ~completionModal.shown
    /\ Becomes(showWeekResult(calculateFinalScore(World)))

NextScoring == ScoreDay \/ ScoreWeek

ScoringSpec == InitScoring /\ [][NextScoring]_vars

\* the perfect-route-prediction bonuses in the score's bonus list
RoutePredictionBonuses ==
    SelectSeq(score.bonuses, LAMBDA b : b.reason = "Perfect route prediction")

\* C13: the week-final scoring adds the perfect-route-prediction bonus exactly
\* when the one-way guess differs by at most 3 from
\* floor((capacity * (1 - safetyBuffer) / extreme-weather efficiency) / 2);
\* a class A bus whose guess is that value (22 miles for 100 kWh) gets it
C13_RoutePredictionBonus ==
    completionModal.title = "Week Result" =>
        LET extreme == IF config.busType = "A" THEN 190 ELSE 285
            \* o = floor(c * 0.85 / extreme / 2), c and extreme in hundredths
            near == \E o \in 0..100 :
                       /\ 200 * extreme * o <= 85 * config.batteryCapacity
                       /\ 85 * config.batteryCapacity < 200 * extreme * (o + 1)
                       /\ config.guessDistance - o <= 3
                       /\ o - config.guessDistance <= 3
        IN /\ Len(RoutePredictionBonuses) = IF near THEN 1 ELSE 0
           /\ (config.busType = "A" /\ config.guessDistance = 22)
                 => /\ Len(RoutePredictionBonuses) = 1
                    /\ RoutePredictionBonuses[1].points = perfectRoutePrediction

\* the week of a class A bus with the optimal guess was scored
C13_Witness ==
    /\ completionModal.title = "Week Result"
    /\ config.busType = "A" /\ config.guessDistance = 22
    /\ Len(RoutePredictionBonuses) = 1
    /\ score.total >= perfectRoutePrediction

\* C14: the day score is the base completion points, plus the no-mid-day-charge
\* bonus or else the mid-day-charge penalty, plus, when a nightly decision
\* exists for the day, with endPercent = targetPercent - consumed / capacity * 100:
\* the efficiency bonus if 10 <= endPercent <= 25, the rounded per-kWh penalty
\* on the kWh above 25% if endPercent > 25, nothing if endPercent < 10
C14_DayScore ==
    (score.dayScores # <<>> /\ ~completionModal.shown) =>
        LET points == score.dayScores[1].points
            capacity == config.batteryCapacity
            base == dayCompleted + (IF stats.midDayCharges > 0 THEN midDayChargePenalty
                                                              ELSE noMidDayChargeBonus)
            \* endPercent * capacity
            endTimesCap == decisions[1].targetPercent * capacity
                             - 100 * stats.totalEnergyConsumed
            \* the penalty p = Math.round(x) is the integer with p <= x + 1/2 < p + 1,
            \* x = overchargePerKwhPenalty * (endPercent - 25) / 100 * capacity kWh
            n == overchargePerKwhPenalty * (endTimesCap - 25 * capacity)
            d == 100 * KwhScale
            p == points - base
        IN IF decisions = <<>> THEN points = base
           ELSE IF endTimesCap >= 10 * capacity /\ endTimesCap <= 25 * capacity
                THEN points = base + efficientChargeBonus
           ELSE IF endTimesCap > 25 * capacity
                THEN 2 * d * p <= 2 * n + d /\ 2 * n + d < 2 * d * (p + 1)
           ELSE points = base

\* a day that ended 29.75% above the consumption after a charge to 100%: 4.75 kWh
\* over 25%, a penalty of round(-9.5) = -9
C14_Witness ==
    /\ score.dayScores # <<>> /\ ~completionModal.shown
    /\ config.batteryCapacity = 10000
    /\ decisions # <<>> /\ decisions[1].targetPercent = 100
    /\ stats.totalEnergyConsumed = 7025 /\ stats.midDayCharges = 0
    /\ score.dayScores[1].points = dayCompleted + noMidDayChargeBonus - 9

\* C15: completing a day (one that is not the last of the week, whose
\* completion also adds the week's bonuses) changes the running score total by
\* exactly the points of that day's day score
C15_TotalGrowsByDayScore ==
    [][(Len(score'.dayScores) = Len(score.dayScores) + 1 /\ week'.currentDay <= LastDay)
          => score'.total - score.total =
                score'.dayScores[Len(score'.dayScores)].points]_vars

C17_DeadheadAfterRouting ==
    [][Len(osrmRequests') < Len(osrmRequests) =>
          /\ bus'.deadheadDistance > 0
          /\ bus'.deadheadProgress = 0
          /\ ~pendingCharge'.set
          /\ startTimer']_vars

\* C18: while a station has been confirmed for the pending charging decision
\* and the decision is still pending (the first call awaits the routed path),
\* a further confirmCharging call, for any station, leaves the day's and the
\* week's mid-day charge counters, the penalties and the total, the deadhead
\* mileage and the charge target as they are
C18_RepeatedConfirmIgnored ==
    (pendingCharge.set /\ bus.usedMidDayCharge /\ stats.midDayCharges > 0) =>
        \A station \in getAvailableChargingStations :
            LET w == confirmCharging(World, station) IN
            /\ w.stats.midDayCharges = stats.midDayCharges
            /\ w.week.totalMidDayCharges = week.totalMidDayCharges
            /\ w.stats.deadheadMiles = stats.deadheadMiles
            /\ w.score = score
            /\ w.bus.targetChargeKwh = bus.targetChargeKwh
            /\ w.osrmRequests = osrmRequests

\* C19: once the nightly decision of the coming day is confirmed and before
\* that day has run a frame (route regeneration may still be awaited), a
\* further confirmNightlyCharging call, for any choice, records no decision,
\* adds no cost and no V2G earnings, and neither resets the bus nor starts
\* the day again
C19_RepeatedNightlyIgnored ==
    (/\ decisions # <<>>
     /\ decisions[Len(decisions)].day = week.currentDay
     /\ ~showNightlyChargingModal
     /\ simulation.elapsedTime = 0) =>
        \A choice \in NightlyChoices :
            LET v2gAmount == IF choice[3] THEN availableForV2G(World) ELSE 0
                w == confirmNightlyCharging(World, choice[1], choice[2], v2gAmount,
                                            v2gAmount * dischargeRate)
            IN /\ w.decisions = decisions
               /\ w.week.totalOvernightCost = week.totalOvernightCost
               /\ w.week.totalV2GEarnings = week.totalV2GEarnings
               /\ w.bus = bus
               /\ w.regenRequests = regenRequests

\* a step taken while the route is degenerate (no path, a path of fewer than
\* two points, or a path of zero length) and the bus is one that a tick would
\* start or move, and that neither installs a route, nor resets the bus for a
\* new day, nor answers a charging decision: what is left is the frames of
\* the loop and the start and pause of the simulation
DegenerateStep ==
    /\ route.distance = 0
    /\ bus.status \in {"waiting", "moving"}
    /\ ~bus.isCharging
    /\ route' = route
    /\ regenRequests' = regenRequests
    /\ decisions' = decisions
    /\ pendingCharge' = pendingCharge
    /\ osrmRequests' = osrmRequests

\* C20: on a degenerate route a tick changes nothing for the bus (position,
\* progress, battery, energy, status) and raises no failure
C20_DegenerateTickNoOp ==
    [][DegenerateStep =>
          /\ bus'.position = bus.position
          /\ bus'.progress = bus.progress
          /\ bus'.batteryKwh = bus.batteryKwh
          /\ bus'.batteryLevel = bus.batteryLevel
          /\ bus'.energyConsumed = bus.energyConsumed
          /\ bus'.status = bus.status
          /\ completionModal' = completionModal]_vars

\* C20 (amended): on a degenerate route a tick leaves the bus's position,
\* progress, battery and energy as they are; the status changes only from
\* waiting to moving, or to stranded when the path has two points or more
\* (of zero length) and the battery is empty, which also ends the game;
\* without a path of two points there is no failure
C20_DegenerateTickMovesNothing ==
    [][DegenerateStep =>
          /\ bus'.position = bus.position
          /\ bus'.progress = bus.progress
          /\ bus'.batteryKwh = bus.batteryKwh
          /\ bus'.batteryLevel = bus.batteryLevel
          /\ bus'.energyConsumed = bus.energyConsumed
          /\ \/ bus'.status = bus.status /\ completionModal' = completionModal
             \/ /\ bus.status = "waiting" /\ bus'.status = "moving"
                /\ completionModal' = completionModal
             \/ /\ route.pathPoints >= 2 /\ bus.batteryKwh <= 0
                /\ bus.status \in {"waiting", "moving"}
                /\ bus'.status = "stranded"]_vars

\* a bus with an empty battery has been set in motion by a tick on a route
\* whose path has fewer than two points, and is not stranded
C20_Witness ==
    /\ route.distance = 0
    /\ route.pathPoints < 2
    /\ bus.status = "moving"
    /\ bus.batteryKwh = 0
    /\ simulation.running
    /\ ~completionModal.shown

\* a step that changes a charging bus and is not the reset for a new day:
\* a frame of the loop that ran handleCharging
ChargingStep ==
    /\ bus.status = "charging"
    /\ bus.isCharging
    /\ bus' # bus
    /\ route' = route
    /\ regenRequests' = regenRequests
    /\ decisions' = decisions
    /\ pendingCharge' = pendingCharge
    /\ osrmRequests' = osrmRequests

\* the charge target handleCharging compares with
TargetKwhOf(b) ==
    IF Falsy(b.targetChargeKwh) THEN (b.batteryCapacity * 8) \div 10
    ELSE b.targetChargeKwh

\* C21: a frame leaves a charging bus charging exactly when, after it, the
\* battery is below the target and below 95 percent and the charging time is
\* below the maximum mid-day charging duration; otherwise the bus goes to
\* returning-from-charger if a return trip is pending and else to moving.
\* No frame of a charging bus strands it or ends the scenario, and every
\* frame of positive length adds charging time, which stays below the
\* maximum while the bus charges: so charging ends
C21_ChargingEnds ==
    [][ChargingStep =>
        LET charged == \/ bus'.batteryKwh >= TargetKwhOf(bus)
                       \/ bus'.batteryLevel >= 95 * bus.batteryCapacity
            expired == \E d \in TickUnits :
                          /\ ChargingWindowExpired(OrZero(bus.chargingTimeHours) + d)
                          /\ bus'.batteryKwh =
                                FillBattery(bus.batteryKwh,
                                    EnergyCharged(IF Falsy(bus.chargingKwhPerHour)
                                                  THEN chargingRateKwhPerHour
                                                  ELSE bus.chargingKwhPerHour, d),
                                    bus.batteryCapacity)
        IN /\ bus'.status \in {"charging", "moving", "returning-from-charger"}
           /\ completionModal' = completionModal
           /\ bus'.status = "charging" =>
                 /\ ~charged
                 /\ bus'.isCharging
                 /\ bus'.chargingTimeHours > bus.chargingTimeHours
                 /\ ~ChargingWindowExpired(bus'.chargingTimeHours)
           /\ bus'.status # "charging" =>
                 /\ charged \/ expired
                 /\ ~bus'.isCharging
                 /\ bus'.status = "returning-from-charger"
                       <=> (bus.needsReturnTrip /\ bus.returnDestination # NullPos)]_vars

\* the charging window has expired with a shortfall at the school's charger:
\* the bus is moving again at the school, still short of the energy that
\* made the mid-day charge necessary and below 95 percent
C21_Witness ==
    /\ bus.status = "moving"
    /\ bus.usedMidDayCharge
    /\ ~bus.isCharging
    /\ bus.progress = SchoolAt(route.distance)
    /\ stats.midDayChargingKwh > 0
    /\ NeedsCharging(bus.batteryKwh, PmEnergyNeeded(World), bus.batteryCapacity)
    /\ bus.batteryLevel < 95 * bus.batteryCapacity

\* the edges of the bus status
StatusEdge(s, t) ==
    \/ s = "waiting" /\ t = "moving"
    \/ s = "moving" /\ t \in {"dwelling", "at-school", "completed", "stranded"}
    \/ s = "dwelling" /\ t \in {"at-school", "moving"}
    \/ s = "at-school" /\ t \in {"dwelling", "charging", "traveling-to-charger"}
    \/ s = "traveling-to-charger" /\ t \in {"charging", "stranded"}
    \/ s = "charging" /\ t \in {"returning-from-charger", "moving"}
    \/ s = "returning-from-charger" /\ t \in {"moving", "stranded"}
    \/ t = "waiting"

\* the edges one callback can take in a row: updateBus starts a waiting bus,
\* or the dwell's timeout sets a dwelling bus moving, and moveBus then takes
\* the edges of a moving bus, at-school -> dwelling among them
StatusPath(s, t) ==
    \/ StatusEdge(s, t)
    \/ /\ s \in {"waiting", "dwelling", "moving"}
       /\ \/ StatusEdge("moving", t)
          \/ StatusEdge("moving", "at-school") /\ StatusEdge("at-school", t) /\ t = "dwelling"

\* C22: every change of the bus status follows the edges of the status
\* diagram; only a new-day reset leads to waiting
C22_StatusEdges ==
    [][bus'.status # bus.status =>
          /\ StatusPath(bus.status, bus'.status)
          /\ bus'.status = "waiting" =>
                (bus'.progress = 0 /\ ~bus'.midDayChargeChecked)]_vars

\* the station that a step of confirmCharging has selected
Selected(station) ==
    /\ stats'.midDayCharges = stats.midDayCharges + 1
    /\ bus'.chargingStation = station.id

\* C23: selecting a station that is not at the school records a penalty of
\* the per-mile deadhead penalty times the one-way distance from the school
\* to the station (rounded); selecting a station at the school records none
C23_PenaltyOnOneWay ==
    [][\A station \in getAvailableChargingStations :
          Selected(station) =>
             IF station.locationType = "school"
             THEN score'.penalties = score.penalties
             ELSE score'.penalties =
                     Append(score.penalties,
                            [reason |-> "Deadhead",
                             points |-> -Round(deadheadPenaltyPerMile
                                               * station.distanceFromSchool, 1)])]_vars

\* C23 (amended): selecting a station that is not at the school records a
\* penalty of the per-mile deadhead penalty times the station's deadhead
\* miles, the round trip of twice its distance from the school (rounded),
\* and takes it from the total; selecting a station at the school records
\* no penalty
C23_PenaltyOnRoundTrip ==
    [][\A station \in getAvailableChargingStations :
          Selected(station) =>
             IF station.locationType = "school"
             THEN score'.penalties = score.penalties /\ score'.total = score.total
             ELSE LET points == -Round(deadheadPenaltyPerMile
                                       * 2 * station.distanceFromSchool, 1)
                  IN /\ score'.penalties =
                          Append(score.penalties,
                                 [reason |-> "Deadhead", points |-> points])
                     /\ score'.total = score.total + points
                     /\ stats'.deadheadMiles =
                          stats.deadheadMiles + 2 * station.distanceFromSchool]_vars

\* the off-route charger has been selected and its penalty of 30 points for
\* the round trip of 6 miles is recorded
C23_Witness ==
    /\ bus.chargingStation = publicLevel3.id
    /\ stats.midDayCharges = 1
    /\ stats.deadheadMiles = 6
    /\ \E i \in 1..Len(score.penalties) :
          score.penalties[i] = [reason |-> "Deadhead", points |-> -30]

\* C24: in every reachable state the week's current day is 1, 2 or 3
C24_CurrentDayInWeek == week.currentDay \in 1..LastDay

\* C25: the route progress stays between 0 and the whole route, no step
\* lowers it except the reset for a new day, which sets it to 0 together
\* with the rest of the bus
C25_ProgressMonotone ==
    [][/\ bus.progress >= 0 /\ bus.progress <= route.distance
       /\ bus'.progress >= 0 /\ bus'.progress <= route'.distance
       /\ bus'.progress < bus.progress =>
             /\ bus'.progress = 0
             /\ bus'.status = "waiting"
             /\ bus'.currentStopIndex = 0
             /\ bus'.energyConsumed = 0
             /\ ~bus'.midDayChargeChecked]_vars

\* the bus is under way on the second day: the reset has taken the progress
\* back to 0 and frames have raised it again
C25_Witness ==
    /\ week.currentDay = 2
    /\ bus.status = "moving"
    /\ bus.progress > 0
    /\ bus.progress < route.distance
    /\ Len(week.dayResults) = 1

\* C26: while the simulation is paused, before the next startSimulation, no
\* step changes the bus's position, progress, battery or status
C26_PausedBusFrozen ==
    [][(simulation.running /\ simulation.paused /\ simulation'.paused) =>
          /\ bus'.position = bus.position
          /\ bus'.progress = bus.progress
          /\ bus'.batteryKwh = bus.batteryKwh
          /\ bus'.batteryLevel = bus.batteryLevel
          /\ bus'.status = bus.status]_vars

\* C27: the day results and the day scores are those of days 1, 2, 3 in
\* order, one each; a nightly decision is requested only after day 1 or 2,
\* for the day that follows it; the week result is shown only after three
\* days
C27_DaysCompletedOnce ==
    /\ Len(week.dayResults) <= LastDay
    /\ Len(score.dayScores) = Len(week.dayResults)
    /\ \A i \in 1..Len(week.dayResults) :
          week.dayResults[i].day = i /\ score.dayScores[i].day = i
    /\ week.currentDay = Len(week.dayResults) + 1
    /\ showNightlyChargingModal => Len(week.dayResults) \in {1, 2}
    /\ Len(decisions) <= LastDay - 1
    /\ \A i \in 1..Len(decisions) : decisions[i].day = i + 1
    /\ completionModal.title = "Week Result" => Len(week.dayResults) = LastDay

\* C28: a nightly decision whose route distance differs from the distance in
\* use before it requests the regeneration of the route for that distance;
\* a decision without a route distance, or with the one in use, requests
\* none and keeps the route
C28_RouteRegenerated ==
    [][Len(decisions') = Len(decisions) + 1 =>
          LET dec == decisions'[Len(decisions')]
              differs == /\ dec.newRouteDistance # NullNum
                         /\ dec.newRouteDistance # routeDistanceInUse(config)
          IN IF differs
             THEN regenRequests' =
                     Append(regenRequests,
                            [chargePercent |-> dec.targetPercent,
                             newRouteDistance |-> dec.newRouteDistance])
             ELSE regenRequests' = regenRequests /\ route'.distance = route.distance]_vars

\* a step in which continueToNextDay has reset the bus: a nightly decision
\* confirmed without a route regeneration, or the end of an awaited one
ResetStep ==
    \/ Len(regenRequests') < Len(regenRequests)
    \/ Len(decisions') > Len(decisions) /\ regenRequests' = regenRequests

C30_StationSelection ==
    [][/\ \A station \in getAvailableChargingStations :
             Selected(station) =>
                IF station.locationType = "school"
                THEN /\ bus'.status = "charging" /\ bus'.isCharging
                     /\ bus'.chargingRate = station.rate
                     /\ bus'.chargingKwhPerHour = station.kwhPerHour
                     /\ ~bus'.needsReturnTrip
                ELSE /\ bus'.status = "traveling-to-charger" /\ ~bus'.isCharging
                     /\ bus'.originalPosition = bus.position
                     /\ bus'.batteryKwh = bus.batteryKwh
       /\ (bus'.status = "traveling-to-charger" /\ osrmRequests' = <<>>) =>
             /\ bus'.deadheadDistance > 0
             /\ bus'.deadheadProgress >= 0
             /\ bus.status = "at-school" => bus'.deadheadProgress = 0
             /\ ~bus'.isCharging
             /\ bus.status = "traveling-to-charger" => bus'.batteryKwh <= bus.batteryKwh]_vars

\* a frame in which a bus traveling to the charger arrives there: no station
\* is being selected and no routed path is answered in the step
DeadheadArrival ==
    /\ bus.status = "traveling-to-charger"
    /\ bus.chargerDestination # NullPos
    /\ ~Falsy(bus.deadheadDistance)
    /\ bus'.status = "charging"
    /\ ~pendingCharge.set
    /\ pendingCharge' = pendingCharge
    /\ osrmRequests' = osrmRequests

\* a step in which a bus that charges at a station off the route stops
\* charging and has not been reset for a new day
OffRouteChargingEnds ==
    /\ bus.status = "charging"
    /\ bus.position.on = "deadhead"
    /\ bus'.status # "charging"
    /\ ~ResetStep

\* C31: a bus traveling to the charger that reaches its deadhead distance
\* with energy left is put at the charger's position and charges, with a return
\* leg as long as the outbound leg back to the recorded originalPosition; when
\* the charging at the off-route station ends the bus returns from the
\* charger and does not go to moving directly
C31_DeadheadArrivalAndReturn ==
    [][/\ DeadheadArrival =>
             /\ bus'.batteryKwh > 0
             /\ bus'.position = bus.chargerDestination
             /\ bus'.isCharging
             /\ bus'.needsReturnTrip
             /\ bus'.returnDistance = bus.deadheadDistance
             /\ bus'.returnDestination = bus.originalPosition
             /\ bus.originalPosition # NullPos
       /\ OffRouteChargingEnds =>
             /\ bus'.status = "returning-from-charger"
             /\ bus'.returnProgress = 0
             /\ bus'.returnDistance = bus.deadheadDistance
             /\ bus'.returnDestination = bus.originalPosition]_vars

\* the bus has left the off-route charger for the place where the station
\* was selected
C31_Witness ==
    /\ bus.status = "returning-from-charger"
    /\ bus.position.on = "deadhead"
    /\ bus.needsReturnTrip
    /\ bus.returnDistance = bus.deadheadDistance
    /\ bus.returnDestination = bus.originalPosition
    /\ bus.returnProgress >= 0

\* a frame in which a bus returning from the charger reaches its return
\* distance
ReturnArrival ==
    /\ bus.status = "returning-from-charger"
    /\ bus.returnDestination # NullPos
    /\ ~Falsy(bus.returnDistance)
    /\ bus'.status = "moving"
    /\ pendingCharge' = pendingCharge
    /\ osrmRequests' = osrmRequests

\* C32: when a bus returning from the charger reaches its return distance it
\* is moving, and the deadhead fields (charger destination, deadhead distance,
\* progress and start position, original position, return trip, return
\* distance, progress and destination) and the charging fields of the session
\* (station, rate, kWh per hour, target, charging time, isCharging) are cleared
C32_ReturnClearsState ==
    [][ReturnArrival =>
          /\ bus'.chargerDestination = NullPos
          /\ bus'.deadheadDistance = NullNum /\ bus'.deadheadProgress = NullNum
          /\ bus'.deadheadStartPosition = NullPos
          /\ bus'.originalPosition = NullPos
          /\ ~bus'.needsReturnTrip
          /\ bus'.returnDistance = NullNum /\ bus'.returnProgress = NullNum
          /\ bus'.returnDestination = NullPos
          /\ bus'.chargingStation = "null"
          /\ bus'.chargingRate = NullNum /\ bus'.chargingKwhPerHour = NullNum
          /\ bus'.targetChargeKwh = NullNum
          /\ bus'.chargingTimeHours = 0
          /\ ~bus'.isCharging]_vars

\* a frame of positive length in which updateBus ran for a bus on its route
RouteFrame ==
    /\ simulation'.elapsedTime > simulation.elapsedTime
    /\ bus.status \in {"waiting", "moving", "dwelling"}
    /\ ~bus.isCharging

\* the stops of the route that are completed
CompletedStops(r) == {i \in 1..Len(r.stops) : r.stops[i].completed}

\* C33: within a frame the bus is moved and its energy drained, and the
\* stranding check made, before the stop arrivals and the school check, and
\* the clock is computed from the bus after them: a bus whose battery reaches
\* 0 in a frame is stranded in that frame, arrives at no stop and raises no
\* charging decision even at the school, and the clock of every frame is
\* that of the bus the frame leaves
C33_MoveBeforeChecks ==
    [][RouteFrame =>
          /\ simulation'.currentTime = updateClock(World').simulation.currentTime
          /\ (bus.batteryKwh > 0 /\ bus'.batteryKwh = 0) =>
                /\ bus'.status = "stranded"
                /\ bus'.progress >= bus.progress
                /\ ~pendingCharge'.set
                /\ bus'.midDayChargeChecked = bus.midDayChargeChecked
                /\ bus'.arrivedAtSchool = bus.arrivedAtSchool
                /\ checksToday' = checksToday
                /\ CompletedStops(route') = CompletedStops(route)
                /\ ~simulation'.running]_vars

\* the bus is stranded where the mid-day check would have been made, and the
\* check has not been made
C33_Witness ==
    /\ bus.status = "stranded"
    /\ bus.batteryKwh = 0
    /\ \/ bus.progress = SchoolAt(route.distance)
       \/ InFallbackWindow(bus.progress, route.distance)
    /\ ~bus.midDayChargeChecked
    /\ ~bus.arrivedAtSchool
    /\ ~pendingCharge.set
    /\ completionModal.title = "Bus Stranded!"

\* ------------------------------------------------------------------------
\* One day driven by a bus of either class

\* the state when the start button's handler has run for the bus class
\* chosen on the splash screen
InitClasses ==
    /\ \E busType \in BusTypes :
          config = [busType |-> busType, batteryCapacity |-> CapacityOf(busType),
                    guessDistance |-> 29, adjustedRouteDistance |-> NullNum,
                    weatherPattern |-> "fall"]
    /\ route = generateRoute(1, config.guessDistance)
    /\ bus = initializeBuses(route, config)
    /\ stats = resetStats
    /\ week = resetWeek
    /\ weather = ScheduleWeather("fall", 1)
    /\ score = [total |-> 0, dayScores |-> <<>>, bonuses |-> <<>>, penalties |-> <<>>]
    /\ decisions = <<>>
    /\ simulation = resetSimulation
    /\ pendingCharge = NoPendingCharge
    /\ showNightlyChargingModal = FALSE
    /\ simulationInterval = FALSE
    /\ startTimer = FALSE
    /\ osrmRequests = <<>>
    /\ regenRequests = <<>>
    /\ completionModal = NoModal
    /\ checksToday = 0

NextClasses ==
    \/ Tick
    \/ StartSimulation
    \/ PauseSimulation
    \/ DwellTimerFires

ClassesSpec == InitClasses /\ [][NextClasses]_vars

\* the CO2 avoided over a stop segment by a bus of the class, with the
\* diesel MPG of the class and the multiplier of class C
Co2PerStop(busType) ==
    LET perGallon == avgStopDistance * poundsPerGallonTimes10 * Co2Scale
    IN IF busType = "C"
       THEN ((perGallon \div DIESEL_MPG("typeC")) * typeCMultiplierTimes2) \div 2
       ELSE perGallon \div DIESEL_MPG("typeA")

\* C34: each arrival at a pickup or dropoff stop adds to stats.co2Avoided the
\* CO2 of the assumed stop segment at the diesel MPG of the bus's class, with
\* the class C multiplier for a class C bus, so that a class C bus gains more
\* per stop than a class A bus
C34_Co2ByBusClass ==
    [][/\ stats'.pickupsCompleted >= stats.pickupsCompleted =>
             stats'.co2Avoided - stats.co2Avoided =
                 (stats'.pickupsCompleted - stats.pickupsCompleted) * Co2PerStop(bus.busType)
       /\ Co2PerStop("C") > Co2PerStop("A")]_vars

\* a step taken while the bus travels to a charger, charges or returns from
\* it, other than the reset for a new day
ChargingDetourStep ==
    /\ bus.status \in {"traveling-to-charger", "charging", "returning-from-charger"}
    /\ ~ResetStep

\* C35: the steps of the detour to a charger (traveling to it, charging,
\* returning) leave the route progress, the stop index and the completed
\* stops as they are, and the bus that arrives back from an off-route charger
\* is at the position at which the station was selected
C35_DetourKeepsRouteState ==
    [][/\ ChargingDetourStep =>
             /\ bus'.progress = bus.progress
             /\ bus'.currentStopIndex = bus.currentStopIndex
             /\ CompletedStops(route') = CompletedStops(route)
       /\ ReturnArrival =>
             /\ bus'.position = bus.originalPosition
             /\ bus'.position = RoutePos(bus'.progress)]_vars

\* the bus moves again after a charge at the off-route charger, at the place
\* where the station was selected
C35_Witness ==
    /\ bus.status = "moving"
    /\ bus.usedMidDayCharge
    /\ stats.deadheadMiles > 0
    /\ stats.midDayChargingKwh > 0
    /\ ~bus.needsReturnTrip
    /\ bus.originalPosition = NullPos
    /\ bus.position = RoutePos(bus.progress)
    /\ bus.chargingStation = publicLevel3.id

\* the battery a bus would have without the energy it consumed and the
\* energy charged at mid-day
EnergyLedger(b, st) == b.batteryKwh + b.energyConsumed - st.midDayChargingKwh

\* C36: the reset for a new day starts the bus and the day's statistics
\* without consumed or mid-day energy, and every later step of the day that
\* does not strand the bus keeps the battery equal to the battery of the
\* start of the day less the energy consumed plus the energy charged at
\* mid-day; the day's statistic of consumed energy is the bus's consumed energy
C36_EnergyLedger ==
    [][/\ ResetStep =>
             /\ bus'.energyConsumed = 0
             /\ stats'.midDayChargingKwh = 0
             /\ stats'.totalEnergyConsumed = 0
       /\ (bus.status \notin {"stranded", "completed"} /\ bus'.status # "stranded"
             /\ ~ResetStep) =>
             EnergyLedger(bus', stats') = EnergyLedger(bus, stats)
       /\ bus'.status \notin {"stranded", "completed"} =>
             stats'.totalEnergyConsumed = bus'.energyConsumed]_vars

\* ------------------------------------------------------------------------
\* The program with frames of any length: deltaTime is the wall-clock time
\* since the last callback of the interval and has no upper limit

\* frame lengths in quanta: one stop spacing, two, and a gap that covers most
\* of a one-way trip (a throttled or suspended page)
LongTickUnits == {3, 6, 24}

TickLong ==
    \E d \in LongTickUnits :
        /\ simulation.elapsedTime + d <= MaxElapsedTime
        /\ week.currentDay <= MaxWeekDay
        /\ Becomes(simulationLoop(WallClock(World, d), d))

NextLongFrames ==
    \/ TickLong
    \/ StartSimulation
    \/ PauseSimulation
    \/ StartTimerFires
    \/ DwellTimerFires
    \/ ConfirmCharging
    \/ OsrmResolves
    \/ OsrmFails
    \/ ConfirmNightlyCharging
    \/ RegenResolves
    \/ RegenFails

LongFramesSpec == Init /\ [][NextLongFrames]_vars

\* C37: a bus whose mid-day check of the day found that no charging is needed
\* is not stranded on that day, whatever the lengths of the frames
C37_NoChargeNeededNeverStrands ==
    (bus.midDayChargeChecked /\ ~bus.needsMidDayCharge /\ checksToday > 0)
        => bus.status # "stranded"

\* the days closed so far on which a mid-day charging session was confirmed
\* (the mid-day check asks for at most one session a day)
DaysWithMidDayCharge ==
    {i \in 1..Len(week.dayResults) : week.dayResults[i].midDayCharged}

\* C38: when a day has been closed (the nightly decision or the week result
\* is shown), week.totalMidDayCharges is the number of mid-day charging
\* sessions confirmed on the days so far, each counted once
C38_MidDayChargesCountedOnce ==
    (showNightlyChargingModal \/ completionModal.title = "Week Result")
        => week.totalMidDayCharges = Cardinality(DaysWithMidDayCharge)

\* a step within one day: no day is closed, no nightly decision is confirmed
\* and no reset for a new day is made
SameDayStep ==
    /\ week'.currentDay = week.currentDay
    /\ decisions' = decisions
    /\ regenRequests' = regenRequests

\* C39: within a day the simulated clock never goes back from one frame to
\* the next, through the AM leg, the school, the travel to a charger, the
\* charging, the return and the PM leg, and it is never before the hour the
\* day starts (5) nor after the hour it ends (16)
C39_ClockMonotone ==
    [][/\ SameDayStep => simulation'.currentTime >= simulation.currentTime
       /\ simulation'.currentTime >= amTripStart * ClockScale
       /\ simulation'.currentTime <= pmTripEnd * ClockScale]_vars

\* a step in which an awaited route regeneration ends and the route in use is
\* kept
RegenFailed ==
    /\ regenRequests # <<>>
    /\ regenRequests' = Tail(regenRequests)
    /\ route'.distance = route.distance
    /\ route'.id = route.id

\* C40: when the route regeneration asked for by a nightly decision fails,
\* the bus is reset for the new day on the route in use with the charge the
\* decision chose, and the start of the loop is scheduled; the timer that
\* fires starts the loop
C40_RegenFailureContinues ==
    [][/\ RegenFailed =>
             /\ bus'.status = "waiting"
             /\ bus'.progress = 0 /\ bus'.currentStopIndex = 0
             /\ bus'.position = RoutePos(0)
             /\ bus'.batteryKwh =
                    (Head(regenRequests).chargePercent * bus.batteryCapacity) \div 100
             /\ bus'.energyConsumed = 0
             /\ ~bus'.midDayChargeChecked
             /\ CompletedStops(route') = {}
             /\ startTimer'
       /\ (startTimer /\ ~startTimer' /\ bus' = bus /\ week' = week
             /\ simulation'.elapsedTime = simulation.elapsedTime) =>
             /\ simulation'.running /\ ~simulation'.paused
             /\ simulationInterval']_vars

\* the second day runs on the route of the first after the regeneration for
\* another distance has failed
C40_Witness ==
    /\ week.currentDay = 2
    /\ config.adjustedRouteDistance = 12
    /\ route.distance = generateRoute(1, config.guessDistance).distance
    /\ regenRequests = <<>>
    /\ Len(decisions) = 1
    /\ decisions[1].routeAdjusted
    /\ bus.status = "moving"
    /\ bus.progress > 0
    /\ simulation.running

====
